---- MODULE Spec2Model ----
(***************************************************************************)
(* ATS resume scoring engine (backend/services/ats_scorer.py as listed in  *)
(* ATS_SCORING_LOGIC.md), its FastAPI routes (backend/routes/checker.py)   *)
(* and the Netlify function netlify/functions/score-file.js.               *)
(*                                                                         *)
(* Texts are TLA+ strings; TLC evaluates Len, SubSeq and \o on them, so    *)
(* every scan below works on the characters of the text.  Characters       *)
(* outside ASCII cannot be written in a TLA+ string: each one the code     *)
(* names is represented by one ASCII character to which the code gives no  *)
(* other meaning (the CH_ definitions).                                    *)
(*                                                                         *)
(* Style: a value that is used several times is passed as an argument of   *)
(* an operator instead of being named in a LET, so that each scan appears  *)
(* once in the expanded definition of an action.                           *)
(***************************************************************************)
EXTENDS Integers, Sequences, FiniteSets, TLC

(***************************************************************************)
(* Stand-ins for the non-ASCII characters the source names.                *)
(***************************************************************************)
CH_ARROW   == ">"   \* U+2192
CH_BULLET  == "~"   \* U+2022
CH_DIAMOND == "#"   \* U+25C6
CH_STAR    == "^"   \* U+2605
CH_CHECK   == "&"   \* U+2713
CH_COPY    == "{"   \* U+00A9
CH_TM      == "}"   \* U+2122
CH_REG     == "_"   \* U+00AE
CH_BOXH    == "="   \* U+2500
CH_ZWSP    == "<"   \* U+200B
CH_BOM     == "["   \* U+FEFF
CH_ACIRC   == "]"   \* U+00E2
CH_EURO    == ";"   \* U+20AC
CH_CENT    == "?"   \* U+00A2

(***************************************************************************)
(* Python / JavaScript string primitives.                                  *)
(***************************************************************************)
UpperLetters == "ABCDEFGHIJKLMNOPQRSTUVWXYZ"
LowerLetters == "abcdefghijklmnopqrstuvwxyz"
Digits == {"0", "1", "2", "3", "4", "5", "6", "7", "8", "9"}
Whitespace == {" ", "\n", "\t", "\r", "\f"}

UpperSet == {SubSeq(UpperLetters, i, i) : i \in 1..26}
LowerSet == {SubSeq(LowerLetters, i, i) : i \in 1..26}
Letters == UpperSet \cup LowerSet

ToLowerMap == [c \in UpperSet |->
                 LET i == CHOOSE k \in 1..26 : SubSeq(UpperLetters, k, k) = c
                 IN  SubSeq(LowerLetters, i, i)]

CharAt(s, i) == SubSeq(s, i, i)

Max(a, b) == IF a >= b THEN a ELSE b
Min(a, b) == IF a <= b THEN a ELSE b

MinOf(S) == CHOOSE x \in S : \A y \in S : x <= y
MaxOf(S) == CHOOSE x \in S : \A y \in S : x >= y

LowerChar(c) == IF c \in UpperSet THEN ToLowerMap[c] ELSE c

\* str.lower() / String.prototype.toLowerCase() on the characters i..j of s
RECURSIVE LowerRange(_, _, _)
LowerRange(s, i, j) ==
    IF i > j THEN ""
    ELSE IF i = j THEN LowerChar(CharAt(s, i))
    ELSE LowerRange(s, i, (i + j) \div 2) \o LowerRange(s, (i + j) \div 2 + 1, j)

Lower(s) == LowerRange(s, 1, Len(s))

\* p in s  (Python)  /  s.includes(p)  (JavaScript)
Contains(p, s) ==
    \E i \in 1..(Len(s) - Len(p) + 1) : SubSeq(s, i, i + Len(p) - 1) = p

\* the substrings of s of length n
Substrings(s, n) == {SubSeq(s, i, i + n - 1) : i \in 1..(Len(s) - n + 1)}

\* {p in patterns : p in s}, the patterns being non-empty: every length is
\* scanned once
FoundIn(patterns, s) ==
    LET subs == [n \in {Len(p) : p \in patterns} |-> Substrings(s, n)]
    IN  {p \in patterns : p \in subs[Len(p)]}

StartsWith(s, p) == Len(s) >= Len(p) /\ SubSeq(s, 1, Len(p)) = p
EndsWith(s, p) == Len(s) >= Len(p) /\ SubSeq(s, Len(s) - Len(p) + 1, Len(s)) = p

\* start positions of the occurrences of p in s
Occurrences(p, s) ==
    {i \in 1..(Len(s) - Len(p) + 1) : SubSeq(s, i, i + Len(p) - 1) = p}

\* s.count(p): number of non-overlapping occurrences, scanning from the left
RECURSIVE CountFrom(_, _)
CountFrom(occ, width) ==
    IF occ = {} THEN 0
    ELSE 1 + CountFrom({i \in occ : i >= MinOf(occ) + width}, width)

\* occurrences that do not overlap are all counted
CountOf(occ, width) ==
    IF \A i \in occ : \A d \in 1..(width - 1) : i + d \notin occ
    THEN Cardinality(occ)
    ELSE CountFrom(occ, width)

Count(p, s) == CountOf(Occurrences(p, s), Len(p))

\* positions of the character c in s
Positions(c, s) == {i \in 1..Len(s) : CharAt(s, i) = c}

\* the elements of a finite set of integers, in increasing order
RECURSIVE SortedRange(_, _, _)
SortedRange(S, lo, hi) ==
    IF S = {} THEN <<>>
    ELSE IF lo = hi THEN <<lo>>
    ELSE SortedRange({i \in S : i <= (lo + hi) \div 2}, lo, (lo + hi) \div 2)
         \o SortedRange({i \in S : i > (lo + hi) \div 2}, (lo + hi) \div 2 + 1, hi)

SortedSeq(S) == IF S = {} THEN <<>> ELSE SortedRange(S, MinOf(S), MaxOf(S))

\* the pieces of s between the cut positions
Pieces(s, cuts) ==
    [k \in 1..(Len(cuts) + 1) |->
        SubSeq(s, IF k = 1 THEN 1 ELSE cuts[k - 1] + 1,
                  IF k = Len(cuts) + 1 THEN Len(s) ELSE cuts[k] - 1)]

\* s.split(sep) for a one-character separator: always at least one piece
SplitChar(s, sep) == Pieces(s, SortedSeq(Positions(sep, s)))

WordStarts(s) ==
    {i \in 1..Len(s) : /\ CharAt(s, i) \notin Whitespace
                       /\ (i = 1 \/ CharAt(s, i - 1) \in Whitespace)}

WordEnds(s) ==
    {i \in 1..Len(s) : /\ CharAt(s, i) \notin Whitespace
                       /\ (i = Len(s) \/ CharAt(s, i + 1) \in Whitespace)}

Spans(s, starts, ends) == [k \in 1..Len(starts) |-> SubSeq(s, starts[k], ends[k])]

\* s.split(): the maximal runs of non-whitespace characters
SplitWords(s) == Spans(s, SortedSeq(WordStarts(s)), SortedSeq(WordEnds(s)))

\* len(s.split())
WordCount(s) == Cardinality(WordStarts(s))

\* str.isupper(): at least one cased character and no lower-case one
IsUpper(s) ==
    /\ \E i \in 1..Len(s) : CharAt(s, i) \in UpperSet
    /\ \A i \in 1..Len(s) : CharAt(s, i) \notin LowerSet

TrimSpan(s, keep) == IF keep = {} THEN "" ELSE SubSeq(s, MinOf(keep), MaxOf(keep))

\* String.prototype.trim()
Trim(s) == TrimSpan(s, {i \in 1..Len(s) : CharAt(s, i) \notin Whitespace})

\* sep.join(seq)
RECURSIVE Join(_, _)
Join(seq, sep) ==
    IF Len(seq) = 0 THEN ""
    ELSE IF Len(seq) = 1 THEN seq[1]
    ELSE seq[1] \o sep \o Join(Tail(seq), sep)

\* the elements of a sequence
Range(seq) == {seq[i] : i \in 1..Len(seq)}

\* the elements of seq at the given positions, in increasing position
AtPositions(seq, idx) == [k \in 1..Len(idx) |-> seq[idx[k]]]

RECURSIVE SumSeq(_)
SumSeq(seq) == IF Len(seq) = 0 THEN 0 ELSE Head(seq) + SumSeq(Tail(seq))

RECURSIVE Flatten(_)
Flatten(lists) ==
    IF Len(lists) = 0 THEN <<>> ELSE Head(lists) \o Flatten(Tail(lists))

\* feedback.append(msg) when cond holds
Opt(cond, msg) == IF cond THEN <<msg>> ELSE <<>>

\* score -= k when cond holds
Pen(cond, k) == IF cond THEN k ELSE 0

(***************************************************************************)
(* Exact rational scores.  The Python code computes with floats; every     *)
(* value it produces here is a quotient of small integers, kept exactly    *)
(* as a normalised fraction [num, den] with den > 0.                       *)
(***************************************************************************)
RECURSIVE Gcd(_, _)
Gcd(a, b) == IF b = 0 THEN a ELSE Gcd(b, a % b)

Abs(a) == IF a < 0 THEN -a ELSE a

Reduce(n, d, g) == [num |-> n \div g, den |-> d \div g]

Q(n, d) == Reduce(n, d, Gcd(Abs(n), d))

QInt(n) == [num |-> n, den |-> 1]
QSub(a, k) == Q(a.num - k * a.den, a.den)
QLess(a, b) == a.num * b.den < b.num * a.den
QLeq(a, b) == a.num * b.den <= b.num * a.den

\* max(0, score): the only clamp the scorers apply
ClampLow(a) == IF a.num < 0 THEN QInt(0) ELSE a

\* the integer nearest to f + r/d (0 <= r < d), ties to the even neighbour
Nearest(f, r, d) ==
    IF 2 * r < d THEN f
    ELSE IF 2 * r > d THEN f + 1
    ELSE IF f % 2 = 0 THEN f ELSE f + 1

\* round(x * 10) for x * 10 = n/d: Python's round(x, 1), in tenths, taken on
\* the exact value (round() goes to the even neighbour on a tie; on a float
\* it sees the binary value nearest to the tie, which lies on either side)
RoundHalfEven(n, d) == Nearest(n \div d, n % d, d)
(***************************************************************************)
(* class ATSScorer: static vocabularies                                    *)
(***************************************************************************)
STRONG_VERBS ==
    {"led", "designed", "developed", "implemented", "created", "built",
     "engineered", "architected", "achieved", "delivered", "launched",
     "spearheaded", "transformed", "pioneered", "revolutionized",
     "optimized", "accelerated", "improved", "enhanced", "maximized",
     "initiated", "established", "founded", "generated", "increased",
     "reduced", "decreased", "managed", "directed", "oversaw"}

WEAK_VERBS ==
    {"worked", "helped", "did", "made", "responsible", "involved",
     "participated", "assisted", "contributed", "collaborated"}

\* ATS_BREAKING_CHARS without the bullet character
ATS_BREAKING_CHARS_without_bullet ==
    <<CH_ARROW, CH_DIAMOND, CH_STAR, CH_CHECK, CH_COPY, CH_TM, CH_REG>>

ATS_BREAKING_CHARS ==
    <<CH_ARROW, CH_BULLET, CH_DIAMOND, CH_STAR, CH_CHECK, CH_COPY, CH_TM, CH_REG>>

TECHNICAL_KEYWORDS ==
    <<"python", "java", "javascript", "c++", "sql", "html", "css",
      "react", "angular", "vue", "fastapi", "django", "flask",
      "aws", "gcp", "azure", "docker", "kubernetes", "jenkins",
      "git", "github", "gitlab", "rest", "api", "microservices",
      "agile", "scrum", "jira", "linux", "windows", "mac">>

(***************************************************************************)
(* ATSScorer._score_formatting                                             *)
(***************************************************************************)

\* formatting_result with no deduction for more than 100 lines: the
\* feedback is given, the 5 points are kept
formatting_result_long_undeducted(breaking_chars_found, has_table, has_hidden, line_count, has_double) ==
    [score |->
         ClampLow(QInt(100 - Pen(Len(breaking_chars_found) > 0, 10)
                           - Pen(has_table, 15)
                           - Pen(has_hidden, 10)
                           - Pen(line_count < 10, 5)
                           - Pen(has_double, 3))),
     feedback |->
         Opt(Len(breaking_chars_found) > 0,
             "Remove special characters: " \o Join(breaking_chars_found, ", "))
         \o Opt(has_table, "Tables detected - ATS may not parse correctly. Use text format instead.")
         \o Opt(has_hidden, "Hidden characters detected. Clean up encoding.")
         \o Opt(line_count < 10, "Resume seems too short. Add more content.")
         \o Opt(line_count > 100, "Resume seems too long. Consider condensing to 1-2 pages.")
         \o Opt(has_double, "Remove extra spaces between words.")]

\* the body of _score_formatting, given what its scans of the text found
formatting_result(breaking_chars_found, has_table, has_hidden, line_count, has_double) ==
    [score |->
         ClampLow(QInt(100 - Pen(Len(breaking_chars_found) > 0, 10)
                           - Pen(has_table, 15)
                           - Pen(has_hidden, 10)
                           - Pen(line_count < 10, 5)
                           - Pen(line_count > 100, 5)
                           - Pen(has_double, 3))),
     feedback |->
         Opt(Len(breaking_chars_found) > 0,
             "Remove special characters: " \o Join(breaking_chars_found, ", "))
         \o Opt(has_table, "Tables detected - ATS may not parse correctly. Use text format instead.")
         \o Opt(has_hidden, "Hidden characters detected. Clean up encoding.")
         \o Opt(line_count < 10, "Resume seems too short. Add more content.")
         \o Opt(line_count > 100, "Resume seems too long. Consider condensing to 1-2 pages.")
         \o Opt(has_double, "Remove extra spaces between words.")]

_score_formatting(text) ==
    formatting_result(
        SelectSeq(ATS_BREAKING_CHARS, LAMBDA ch : Contains(ch, text)),
        Contains("|", text) \/ Contains(CH_BOXH, text),
        Contains(CH_ZWSP, text) \/ Contains(CH_BOM, text),
        Cardinality(Positions("\n", text)) + 1,
        Contains("  ", text))

(***************************************************************************)
(* ATSScorer._extract_keywords and ATSScorer._score_keywords               *)
(***************************************************************************)
STOPWORDS == {"the", "a", "an", "and", "or", "in", "at", "to", "for", "of",
              "is", "was", "are"}

\* _extract_keywords with len(w) >= 3 for len(w) > 3: words of three
\* characters are keywords
_extract_keywords_keeps_length_3(text) ==
    SelectSeq(SplitWords(text), LAMBDA w : Len(w) >= 3 /\ w \notin STOPWORDS)

_extract_keywords(text) ==
    SelectSeq(SplitWords(text), LAMBDA w : Len(w) > 3 /\ w \notin STOPWORDS)

\* the distinct elements of seq, in order of first occurrence
Distinct(seq) ==
    AtPositions(seq, SortedSeq({i \in 1..Len(seq) :
                                   \A j \in 1..(i - 1) : seq[j] # seq[i]}))

\* the sequence d read from position seed + 1 on, cyclically
Rotate(d, seed) == [k \in 1..Len(d) |-> d[((k - 1 + seed) % Len(d)) + 1]]

\* list(set(seq)): Python iterates a set of str in an order fixed by the
\* string hashes, which are salted per interpreter process (PYTHONHASHSEED).
\* The order is a function of the set and of the process's hash seed: here
\* the rotation by seed of the first-occurrence order.
ListOfSet(seq, seed) == Rotate(Distinct(seq), seed)

\* jd_match_score with three separate ifs for the if / elif / elif: the
\* penalties of all the tiers match_rate is below add up
jd_match_score_stacked(m, n) ==
    ClampLow(QSub(Q(100 * m, n),
                  (IF 10 * m < 3 * n THEN 30 ELSE 0)
                  + (IF 2 * m < n THEN 15 ELSE 0)
                  + (IF 10 * m < 7 * n THEN 5 ELSE 0)))

\* jd_match_score with 20 for 30 in the lowest tier
jd_match_score_low_tier_20(m, n) ==
    ClampLow(QSub(Q(100 * m, n),
                  IF 10 * m < 3 * n THEN 20
                  ELSE IF 2 * m < n THEN 15
                  ELSE IF 10 * m < 7 * n THEN 5
                  ELSE 0))

\* score = match_rate * 100, then the penalty of the tier of match_rate,
\* for match_rate = m / n
jd_match_score(m, n) ==
    ClampLow(QSub(Q(100 * m, n),
                  IF 10 * m < 3 * n THEN 30
                  ELSE IF 2 * m < n THEN 15
                  ELSE IF 10 * m < 7 * n THEN 5
                  ELSE 0))

\* technical_score with the second threshold off by one (found <= 3 for
\* found < 3): a resume with exactly three technical terms loses 15
technical_score_off_by_one(found) ==
    ClampLow(QInt(100 - (IF found = 0 THEN 30 ELSE IF found <= 3 THEN 15 ELSE 0)))

\* the branch without job description, given len(found_keywords)
technical_score(found) ==
    ClampLow(QInt(100 - (IF found = 0 THEN 30 ELSE IF found < 3 THEN 15 ELSE 0)))

\* keywords_result with the missing keywords left out of the returned dict
keywords_result_missing_dropped(score, matched_keywords, missing_keywords, seed) ==
    [score |-> score,
     matched |-> ListOfSet(matched_keywords, seed),
     missing |-> <<>>]

keywords_result(score, matched_keywords, missing_keywords, seed) ==
    [score |-> score,
     matched |-> ListOfSet(matched_keywords, seed),
     missing |-> ListOfSet(missing_keywords, seed)]

\* the loop over jd_keywords and the score of the job-description branch
match_keywords(jd_keywords, resume_keywords, seed) ==
    keywords_result(
        jd_match_score(Cardinality({i \in 1..Len(jd_keywords) :
                                       jd_keywords[i] \in resume_keywords}),
                       Max(Len(jd_keywords), 1)),
        SelectSeq(jd_keywords, LAMBDA k : k \in resume_keywords),
        SelectSeq(jd_keywords, LAMBDA k : k \notin resume_keywords),
        seed)

\* technical_keywords with the terms not found reported as missing
technical_keywords_absent_missing(present, seed) ==
    keywords_result(
        technical_score(Cardinality(present)),
        SelectSeq(TECHNICAL_KEYWORDS, LAMBDA k : k \in present),
        SelectSeq(TECHNICAL_KEYWORDS, LAMBDA k : k \notin present),
        seed)

\* the loop over TECHNICAL_KEYWORDS, given the ones the resume contains
technical_keywords(present, seed) ==
    keywords_result(
        technical_score(Cardinality(present)),
        SelectSeq(TECHNICAL_KEYWORDS, LAMBDA k : k \in present),
        <<>>,
        seed)

_score_keywords(resume_text, job_description, seed) ==
    IF job_description # ""
    THEN match_keywords(_extract_keywords(Lower(job_description)),
                        Range(_extract_keywords(Lower(resume_text))), seed)
    ELSE technical_keywords(
             FoundIn(Range(TECHNICAL_KEYWORDS), Lower(resume_text)), seed)

(***************************************************************************)
(* Regular expressions of the scorer                                       *)
(***************************************************************************)
\* last index of the maximal run of characters of class cls starting at i
\* (i - 1 when the character at i is not in cls)
RunEnd(s, i, cls) ==
    MinOf({k \in i..Len(s) : CharAt(s, k) \notin cls} \cup {Len(s) + 1}) - 1

\* \d+[\%\+\-]? from a digit at i, the run of digits ending at j
DigitsMatchEnd(s, j) ==
    IF j < Len(s) /\ CharAt(s, j + 1) \in {"%", "+", "-"} THEN j + 1 ELSE j

\* \$[\d\.,]+ from a dollar sign at i, the run of [\d\.,] ending at j
DollarMatchEnd(i, j) == IF j >= i + 1 THEN j ELSE 0

\* [\d\.]+ [A-Za-z]+ from a dot at i, the run of [\d\.] ending at j and the
\* run of letters from j + 2 ending at k
UnitMatchEnd(s, j, k) ==
    IF j + 1 <= Len(s) /\ CharAt(s, j + 1) = " " /\ k >= j + 2 THEN k ELSE 0

\* [\d\.]+ [A-Za-z]+ from a dot at i
UnitMatch(s, j) == UnitMatchEnd(s, j, RunEnd(s, j + 2, Letters))

\* re.match at position i of  \d+[\%\+\-]?|\$[\d\.,]+|[\d\.]+ [A-Za-z]+ :
\* the index of the last character matched, 0 when there is no match.  The
\* alternatives are tried in order and every quantifier is greedy; a shorter
\* run of [\d\.]+ never helps, as the character after it is then not a space.
MetricMatchEnd(s, i) ==
    IF CharAt(s, i) \in Digits
    THEN DigitsMatchEnd(s, RunEnd(s, i, Digits))
    ELSE IF CharAt(s, i) = "$"
    THEN DollarMatchEnd(i, RunEnd(s, i + 1, Digits \cup {".", ","}))
    ELSE IF CharAt(s, i) = "."
    THEN UnitMatch(s, RunEnd(s, i, Digits \cup {"."}))
    ELSE 0

\* len(re.findall(pattern, text)): leftmost non-overlapping matches; cand is
\* the set of positions where a match can start
RECURSIVE MetricsFrom(_, _)
MetricsAt(s, cand, i, e) ==
    IF e = 0 THEN MetricsFrom(s, {x \in cand : x > i})
    ELSE 1 + MetricsFrom(s, {x \in cand : x > e})

MetricsFrom(s, cand) ==
    IF cand = {} THEN 0
    ELSE MetricsAt(s, cand, MinOf(cand), MetricMatchEnd(s, MinOf(cand)))

MetricsCount(text) ==
    MetricsFrom(text, {i \in 1..Len(text) : CharAt(text, i) \in Digits \cup {"$", "."}})

\* re.search(r'\d{3}[-\.]?\d{3}[-\.]?\d{4}', text) is not None
AllDigits(s, i, n) ==
    i + n - 1 <= Len(s) /\ \A k \in i..(i + n - 1) : CharAt(s, k) \in Digits

SkipSep(s, i) ==
    IF i <= Len(s) /\ CharAt(s, i) \in {"-", "."} THEN i + 1 ELSE i

\* \d{3}[-\.]?\d{4} from position a: the separator is optional, and taking
\* it or not are the only two ways to go on
PhoneTail(s, a) ==
    /\ AllDigits(s, a, 3)
    /\ AllDigits(s, SkipSep(s, a + 3), 4)

HasPhone(text) ==
    \E i \in 1..Len(text) :
        AllDigits(text, i, 3) /\ PhoneTail(text, SkipSep(text, i + 3))

(***************************************************************************)
(* ATSScorer._score_impact                                                 *)
(***************************************************************************)

PASSIVE_INDICATORS == <<"was ", "were ", "been ", "is ", "are ">>

\* the lines the verb loop classifies: not shorter than 5, not a heading
Classifiable(line) == ~(Len(line) < 5 \/ IsUpper(line))

\* any(verb in line_lower for verb in verbs)
AnyIn(verbs, line_lower) == FoundIn(verbs, line_lower) # {}

HasStrong(line) == AnyIn(STRONG_VERBS, Lower(line))
HasWeak(line) == AnyIn(WEAK_VERBS, Lower(line))

\* strong_percent * 0.5 + (100 - weak_percent) * 0.5, or 100 without lines
verb_score(total_bullets, strong_verb_count, weak_verb_count) ==
    IF total_bullets > 0
    THEN Q(50 * strong_verb_count + 50 * (total_bullets - weak_verb_count),
           total_bullets)
    ELSE QInt(100)

\* the part of _score_impact after the loop over the lines
impact_result(total_bullets, strong_verb_count, weak_verb_count, metrics, passive_count) ==
    [score |->
         ClampLow(QSub(verb_score(total_bullets, strong_verb_count, weak_verb_count),
                       Pen(metrics < 3, 20) + Pen(passive_count > 5, 10))),
     feedback |->
         Opt(total_bullets > 0 /\ 2 * weak_verb_count > total_bullets,
             "Weak verbs detected (" \o ToString(weak_verb_count)
             \o " instances). Replace 'worked', 'helped', 'involved' with stronger verbs like 'led', 'designed', 'achieved'.")
         \o Opt(metrics < 3, "Add quantifiable metrics. Include numbers: percentages, dollars, scale, timeline.")
         \o Opt(passive_count > 5, "Reduce passive voice. Prefer active voice (e.g., 'Led' vs 'Was responsible for').")]

\* impact_of_lines with two ifs for the if / elif: a line with a strong and
\* a weak verb counts as both
impact_of_lines_weak_despite_strong(lines, metrics, passive_count) ==
    impact_result(Len(lines),
                  Len(SelectSeq(lines, HasStrong)),
                  Len(SelectSeq(lines, HasWeak)),
                  metrics, passive_count)

\* the loop over the lines: a line with a strong verb counts as strong, a
\* line with no strong verb and a weak one as weak
impact_of_lines(lines, metrics, passive_count) ==
    impact_result(Len(lines),
                  Len(SelectSeq(lines, HasStrong)),
                  Len(SelectSeq(lines, LAMBDA l : ~HasStrong(l) /\ HasWeak(l))),
                  metrics, passive_count)

_score_impact(text) ==
    impact_of_lines(
        SelectSeq(SplitChar(text, "\n"), Classifiable),
        MetricsCount(text),
        SumSeq([k \in 1..Len(PASSIVE_INDICATORS) |->
                   Count(PASSIVE_INDICATORS[k], text)]))

(***************************************************************************)
(* ATSScorer._score_content                                                *)
(***************************************************************************)

SECTIONS_REQUIRED == <<"experience", "education", "skills">>

\* the sections_required entries whose value is False
sections_absent(text_lower) ==
    SelectSeq(SECTIONS_REQUIRED,
              LAMBDA s :
                  CASE s = "experience" ->
                           ~(Contains("experience", text_lower)
                             \/ Contains("employment", text_lower))
                    [] s = "education" ->
                           ~(Contains("education", text_lower)
                             \/ Contains("degree", text_lower))
                    [] s = "skills" ->
                           ~(Contains("skills", text_lower)
                             \/ Contains("technical", text_lower)))

has_summary(text_lower) ==
    \/ Contains("summary", text_lower)
    \/ Contains("objective", text_lower)
    \/ Contains("profile", text_lower)

\* content_result with the email test inverted: 10 off when the text has
\* an '@'
content_result_email_inverted(absent, summary, no_email, no_phone) ==
    [score |->
         ClampLow(QInt(100 - 20 * Len(absent) + (IF summary THEN 5 ELSE 0)
                           - Pen(~no_email, 10))),
     feedback |->
         [k \in 1..Len(absent) |->
             "Missing '" \o absent[k] \o "' section. Add it to improve completeness."]
         \o Opt(~summary, "Consider adding a professional summary (2-3 sentences).")
         \o Opt(no_email, "Missing email address. Add your contact information.")
         \o Opt(no_phone, "Consider adding phone number for completeness.")]

\* content_result with the phone finding scored: 5 off when no phone number
\* is found
content_result_phone_deducted(absent, summary, no_email, no_phone) ==
    [score |->
         ClampLow(QInt(100 - 20 * Len(absent) + (IF summary THEN 5 ELSE 0)
                           - Pen(no_email, 10) - Pen(no_phone, 5))),
     feedback |->
         [k \in 1..Len(absent) |->
             "Missing '" \o absent[k] \o "' section. Add it to improve completeness."]
         \o Opt(~summary, "Consider adding a professional summary (2-3 sentences).")
         \o Opt(no_email, "Missing email address. Add your contact information.")
         \o Opt(no_phone, "Consider adding phone number for completeness.")]

\* the body of _score_content, given what its scans of the text found:
\* 20 off per absent section, 5 more with a summary, 10 off without an '@'
content_result(absent, summary, no_email, no_phone) ==
    [score |->
         ClampLow(QInt(100 - 20 * Len(absent) + (IF summary THEN 5 ELSE 0)
                           - Pen(no_email, 10))),
     feedback |->
         [k \in 1..Len(absent) |->
             "Missing '" \o absent[k] \o "' section. Add it to improve completeness."]
         \o Opt(~summary, "Consider adding a professional summary (2-3 sentences).")
         \o Opt(no_email, "Missing email address. Add your contact information.")
         \o Opt(no_phone, "Consider adding phone number for completeness.")]

content_of(text, text_lower) ==
    content_result(sections_absent(text_lower), has_summary(text_lower),
                   ~Contains("@", text), ~HasPhone(text))

_score_content(text) == content_of(text, Lower(text))

(***************************************************************************)
(* ATSScorer._score_structure                                              *)
(***************************************************************************)

\* a line _score_structure takes for a section heading
IsHeading(line) == IsUpper(line) /\ Len(line) < 30

\* the body of _score_structure, given what its scans of the text found
structure_result(few_headings, many_long, no_bullets, word_count) ==
    [score |->
         ClampLow(QInt(100 - Pen(few_headings, 15) - Pen(many_long, 10)
                           - Pen(no_bullets, 20) - Pen(word_count < 200, 10)
                           - Pen(~(word_count < 200) /\ word_count > 1500, 10))),
     feedback |->
         Opt(few_headings, "Use clear section headings in CAPS (e.g., EXPERIENCE, EDUCATION, SKILLS).")
         \o Opt(many_long, "Some lines are very long. Break them into smaller chunks for readability.")
         \o Opt(no_bullets, ("Use bullet points (" \o CH_BULLET \o ") to structure information. Improves readability and ATS parsing."))
         \o Opt(word_count < 200, "Resume seems short. Add more relevant content.")
         \o Opt(~(word_count < 200) /\ word_count > 1500, "Resume seems long. Aim for 1-2 pages (200-1000 words).")]

\* structure_of_lines without the test of the long lines
structure_of_lines_long_unchecked(lines, bullet_count, word_count) ==
    structure_result(
        Len(SelectSeq(lines, IsHeading)) < 3,
        FALSE,
        bullet_count = 0,
        word_count)

\* len(headings) < 3;  len(long_lines) > len(lines) * 0.3
structure_of_lines(lines, bullet_count, word_count) ==
    structure_result(
        Len(SelectSeq(lines, IsHeading)) < 3,
        10 * Len(SelectSeq(lines, LAMBDA l : Len(l) > 100)) > 3 * Len(lines),
        bullet_count = 0,
        word_count)

_score_structure(text) ==
    structure_of_lines(
        SplitChar(text, "\n"),
        Count(CH_BULLET, text) + Count("-", text) + Count("*", text),
        WordCount(text))

(***************************************************************************)
(* ATSScorer._categorize_issues                                            *)
(***************************************************************************)
CRITICAL_CUES == {"missing", "remove", "avoid", "breaks"}
IMPROVEMENT_CUES == {"consider", "try", "reduce"}

\* branch_of with the two tests exchanged: the improvement words are looked
\* for first
branch_of_improvement_first(item_lower) ==
    IF AnyIn(IMPROVEMENT_CUES, item_lower) THEN "improvement"
    ELSE IF AnyIn(CRITICAL_CUES, item_lower) THEN "critical"
    ELSE "warning"

\* the branch of the if / elif / else an item takes, given item.lower()
branch_of(item_lower) ==
    IF AnyIn(CRITICAL_CUES, item_lower) THEN "critical"
    ELSE IF AnyIn(IMPROVEMENT_CUES, item_lower) THEN "improvement"
    ELSE "warning"

Bucket(item) == branch_of(Lower(item))

\* the items the branch b appended to its list, in order
appended(items, bucket, b) ==
    AtPositions(items, SortedSeq({k \in 1..Len(items) : bucket[k] = b}))

\* categorize_items with the final else left out: an item with no cue word
\* is appended to no list
categorize_items_no_else(items, bucket) ==
    [critical_issues |-> appended(items, bucket, "critical"),
     warnings |-> <<>>,
     improvements |-> appended(items, bucket, "improvement")]

categorize_items(items, bucket) ==
    [critical_issues |-> appended(items, bucket, "critical"),
     warnings |-> appended(items, bucket, "warning"),
     improvements |-> appended(items, bucket, "improvement")]

categorize_each(items) ==
    categorize_items(items, [k \in 1..Len(items) |-> Bucket(items[k])])

\* feedback_lists is the tuple of positional arguments; an empty one is
\* skipped, the others are iterated in order
_categorize_issues(feedback_lists) == categorize_each(Flatten(feedback_lists))

(***************************************************************************)
(* ATSScorer.score_resume                                                  *)
(***************************************************************************)
\* iterating the dict keywords_data yields its keys, in insertion order
DictKeys(keywords_data) == <<"matched", "missing">>

\* the weighted sum with the weights of keywords and impact exchanged
WeightedSum_keywords_impact_swapped(f, k, i, c, s, d) ==
    2 * f.num * (d \div f.den) + 2 * k.num * (d \div k.den)
    + 3 * i.num * (d \div i.den) + 2 * c.num * (d \div c.den)
    + 1 * s.num * (d \div s.den)

\* the weighted sum over the common denominator d
WeightedSum(f, k, i, c, s, d) ==
    2 * f.num * (d \div f.den) + 3 * k.num * (d \div k.den)
    + 2 * i.num * (d \div i.den) + 2 * c.num * (d \div c.den)
    + 1 * s.num * (d \div s.den)

\* round(overall_score, 1), in tenths, of
\* 0.20 f + 0.30 k + 0.20 i + 0.20 c + 0.10 s
Overall(f, k, i, c, s) ==
    RoundHalfEven(WeightedSum(f, k, i, c, s,
                              f.den * k.den * i.den * c.den * s.den),
                  f.den * k.den * i.den * c.den * s.den)

\* the dict score_resume returns
report(formatting, keywords, impact, content, structure, issues) ==
    [overall_score |-> Overall(formatting.score, keywords.score, impact.score,
                               content.score, structure.score),
     breakdown |-> [formatting |-> formatting,
                    keywords |-> keywords,
                    impact |-> impact,
                    content |-> content,
                    structure |-> structure],
     critical_issues |-> issues.critical_issues,
     warnings |-> issues.warnings,
     improvements |-> issues.improvements]

\* the call of _categorize_issues: keywords_data is the second argument
categorized_report(formatting, keywords, impact, content, structure) ==
    report(formatting, keywords, impact, content, structure,
           _categorize_issues(<<formatting.feedback, DictKeys(keywords),
                                impact.feedback, content.feedback,
                                structure.feedback>>))

score_resume(resume_text, job_description, seed) ==
    categorized_report(_score_formatting(resume_text),
                       _score_keywords(resume_text, job_description, seed),
                       _score_impact(resume_text),
                       _score_content(resume_text),
                       _score_structure(resume_text))

(***************************************************************************)
(* backend/routes/checker.py: POST /api/checker/analyze and /upload        *)
(***************************************************************************)
MIN_RESUME_CHARS == 100

HTTPException(status_code, detail) ==
    [kind |-> "http", status |-> status_code, body |-> [detail |-> detail]]

\* request.job_description or ""  (<<>> stands for None)
OrEmpty(job_description) ==
    IF job_description = <<>> THEN "" ELSE job_description[1]

\* The whole body of analyze_resume is inside try / except Exception, and
\* HTTPException is an Exception: the 400 raised for a short text is caught
\* by the handler's own except clause and re-raised as a 500.
analyze_resume(req, seed) ==
    IF Len(req.resume_text) < MIN_RESUME_CHARS
    THEN HTTPException(500, "Failed to analyze resume")
    ELSE [kind |-> "http", status |-> 200,
          body |-> [status |-> "success",
                    analysis |-> score_resume(req.resume_text,
                                              OrEmpty(req.job_description),
                                              seed)]]

\* the dict upload_resume returns
Extracted(text) ==
    [kind |-> "http", status |-> 200,
     body |-> [status |-> "success", extracted_text |-> text]]

\* parser.parse_pdf / parser.parse_docx (services/resume_parser.py) either
\* return the extracted text or raise; the outcome is an input of the model.
\* content.decode('utf-8') raises on bytes that are not UTF-8.  Whatever is
\* raised inside the try, the 400 of the else branch included, is caught and
\* re-raised as the same 500.
upload_resume(req) ==
    IF EndsWith(req.filename, ".pdf") \/ EndsWith(req.filename, ".docx")
    THEN IF req.lib = "throws"
         THEN HTTPException(500, "Failed to parse resume")
         ELSE Extracted(IF req.lib = "no_text" THEN "" ELSE req.content)
    ELSE IF EndsWith(req.filename, ".txt")
    THEN IF req.lib = "throws"
         THEN HTTPException(500, "Failed to parse resume")
         ELSE Extracted(req.content)
    ELSE HTTPException(500, "Failed to parse resume")

(***************************************************************************)
(* netlify/functions/score-file.js                                         *)
(***************************************************************************)
\* the three characters (U+00E2 U+20AC U+00A2) the source file has in the
\* second startsWith, where a bullet was meant
JS_BULLET == CH_ACIRC \o CH_EURO \o CH_CENT

TrimAll(lines) == [k \in 1..Len(lines) |-> Trim(lines[k])]

IsBulletLine(line) == StartsWith(line, "-") \/ StartsWith(line, JS_BULLET)

bulletLines(text) == SelectSeq(TrimAll(SplitChar(text, "\n")), IsBulletLine)

\* score = Math.min(score, 100) and the default feedback
scoreResult(score, feedback) ==
    [score |-> Min(score, 100),
     feedback |-> IF Len(feedback) = 0
                  THEN <<"Resume looks solid. Customize it for the target role and keywords.">>
                  ELSE feedback]

\* the six if / else of scoreFromText, given their conditions
scoreChecks(long_enough, has_skills, has_experience, has_education, enough_bullets, has_email) ==
    scoreResult(
        50 + Pen(long_enough, 10) + Pen(has_skills, 8) + Pen(has_experience, 12)
           + Pen(has_education, 6) + Pen(enough_bullets, 10) + Pen(has_email, 5),
        Opt(~long_enough, "Add more detail (aim for 350-500 words).")
        \o Opt(~has_skills, "Include a dedicated skills section.")
        \o Opt(~has_experience, "Add an experience section with impact-focused bullets.")
        \o Opt(~has_education, "Add education details.")
        \o Opt(~enough_bullets, "Use more bullet points to highlight achievements.")
        \o Opt(~has_email, "Add an email address for contact info."))

scoreNormalized(text, normalized) ==
    scoreChecks(
        Len(text) >= 800,
        Contains("skills", normalized),
        \E keyword \in {"experience", "work history", "employment"} :
            Contains(keyword, normalized),
        \E keyword \in {"education", "degree", "university", "college"} :
            Contains(keyword, normalized),
        Len(bulletLines(text)) >= 5,
        Contains("@", normalized))

scoreFromText(text) == scoreNormalized(text, Lower(text))

\* parts.pop()
Pop(parts) == parts[Len(parts)]

\* filename.includes(".") ? filename.split(".").pop().toLowerCase() : ""
Extension(filename) ==
    IF Contains(".", filename) THEN Lower(Pop(SplitChar(filename, "."))) ELSE ""

\* the branches of extractTextFromUpload on the extension
extractByExtension(extension, content, lib) ==
    IF extension = "txt" \/ extension = "md"
    THEN [threw |-> FALSE, text |-> content]
    ELSE IF extension = "pdf" \/ extension = "docx"
    THEN IF lib = "throws" THEN [threw |-> TRUE, text |-> ""]
         ELSE [threw |-> FALSE, text |-> IF lib = "no_text" THEN "" ELSE content]
    ELSE [threw |-> TRUE, text |-> ""]

\* extractTextFromUpload: [threw |-> TRUE] or [threw |-> FALSE, text |-> ..].
\* lib is what pdf-parse / mammoth do with the bytes: "text" (they return
\* the text), "no_text" (data.text / result.value is empty or undefined, and
\* the function returns "") or "throws".
extractTextFromUpload(filename, content, lib) ==
    extractByExtension(Extension(filename), content, lib)

\* the headers of jsonResponse and of the answer to OPTIONS
JSON_HEADERS ==
    ("Content-Type" :> "application/json") @@ ("Access-Control-Allow-Origin" :> "*")

PREFLIGHT_HEADERS ==
    ("Access-Control-Allow-Origin" :> "*")
    @@ ("Access-Control-Allow-Headers" :> "Content-Type")
    @@ ("Access-Control-Allow-Methods" :> "POST, OPTIONS")

jsonResponse(statusCode, payload) ==
    [kind |-> "http", status |-> statusCode, headers |-> JSON_HEADERS, body |-> payload]

\* the second try / catch of the handler and the scoring after it
scoreExtracted(extraction) ==
    IF extraction.threw
    THEN jsonResponse(400, [error |-> "Unable to read file."])
    ELSE jsonResponse(200, scoreFromText(extraction.text))

\* the handler from the destructuring of the payload on
scorePayload(payload, lib) ==
    IF payload.filename = "" \/ payload.contentBase64 = <<>>
    THEN jsonResponse(400, [error |-> "Missing filename or file content."])
    ELSE scoreExtracted(extractTextFromUpload(payload.filename,
                                              payload.contentBase64[1], lib))

\* scoreFileHandler with the body parsed before the method is looked at
scoreFileHandler_parse_first(req) ==
    IF req.httpMethod = "OPTIONS"
    THEN [kind |-> "http", status |-> 204, headers |-> PREFLIGHT_HEADERS,
          body |-> [empty |-> TRUE]]
    ELSE IF req.body = <<>>
    THEN jsonResponse(400, [error |-> "Invalid JSON payload."])
    ELSE IF req.httpMethod # "POST"
    THEN jsonResponse(405, [error |-> "Method not allowed."])
    ELSE scorePayload(req.body[1], req.lib)

\* exports.handler of score-file.js.  req.body is <<>> when event.body is
\* not JSON, else <<payload>>; payload.contentBase64 is <<>> when absent or
\* empty, else <<bytes>> with the bytes the base64 text decodes to.
scoreFileHandler(req) ==
    IF req.httpMethod = "OPTIONS"
    THEN [kind |-> "http", status |-> 204, headers |-> PREFLIGHT_HEADERS,
          body |-> [empty |-> TRUE]]
    ELSE IF req.httpMethod # "POST"
    THEN jsonResponse(405, [error |-> "Method not allowed."])
    ELSE IF req.body = <<>>
    THEN jsonResponse(400, [error |-> "Invalid JSON payload."])
    ELSE scorePayload(req.body[1], req.lib)

(***************************************************************************)
(* Inputs.  A resume text is made of at most MaxFrags of the blocks of      *)
(* lines below, joined by newlines, or is the strong resume of test_scorer *)
(* (its weak resume is the block WEAK_RESUME alone).                       *)
(***************************************************************************)
MaxFrags == 2
NumSeeds == 2

HEADINGS == "EXPERIENCE\nEDUCATION\nSKILLS"
GOOD == "Profile\n- Led python java sql 40% 30% 20% a@b.co"
BAD == CH_BULLET \o " Worked on various projects | helped team  daily" \o CH_ZWSP
       \o "with python java sql for 10% 20% 30% gains, write me@x.io now\n"
       \o "Assisted and participated and contributed and collaborated on many other things over the years as needed by all."
WEAK_RESUME == "Worked on various projects and helped team."
PASSIVE == "It was and is here, they were and are here, has been and was and is so of interest"

STRONG_RESUME ==
    "\n    JOHN DOE | john@example.com | (555) 123-4567\n    \n"
    \o "    PROFESSIONAL SUMMARY\n"
    \o "    Senior Engineer with 5+ years of experience building scalable applications.\n"
    \o "    \n    EXPERIENCE\n"
    \o "    Senior Engineer | TechCorp | 2022-Present\n"
    \o "    " \o CH_BULLET \o " Led development of API serving 100K+ users, increasing performance by 45%\n"
    \o "    " \o CH_BULLET \o " Designed microservices architecture reducing latency by 60%\n"
    \o "    " \o CH_BULLET \o " Implemented CI/CD pipeline reducing deployment time by 80%\n"
    \o "    \n    EDUCATION\n"
    \o "    BS Computer Science | University | 2018\n"
    \o "    \n    SKILLS\n"
    \o "    Python, FastAPI, AWS, Docker, Kubernetes\n    "

STRONG_JD == "Seeking Senior Python developer with FastAPI and AWS experience."
JD_EXTRA == "\nkubernetes terraform"
\* a job description of five keywords, two of them in GOOD and BAD, and one
\* whose words are all too short to be keywords
JD_STACK == "Python Java Kubernetes Terraform Docker"
JD_SHORT == "Go C# JS"
\* a job description of three keywords, two of them in GOOD and BAD
JD_MOST == "Python Java Terraform"

\* s repeated n times
Times(s, n) == Join([k \in 1..n |-> s], "")

\* a text of more than 100 lines, with a box-drawing character and a
\* byte-order mark
MANY_LINES == CH_BOM \o Times("-\n", 101) \o CH_BOXH

Fragments == <<HEADINGS, GOOD, BAD, WEAK_RESUME, PASSIVE>>

\* the blocks picked, in the order of Fragments
FragSeq(picked) == AtPositions(Fragments, SortedSeq(picked))

Texts == {Join(FragSeq(picked), "\n") :
             picked \in {X \in SUBSET (DOMAIN Fragments) : Cardinality(X) <= MaxFrags}}
         \cup {STRONG_RESUME, MANY_LINES}

\* job descriptions offered with a resume text: none, the one of
\* test_scorer, the resume itself, the resume with two more keywords, and
\* the two above
JobDescriptions(text) ==
    {"", STRONG_JD, text, text \o JD_EXTRA, JD_STACK, JD_SHORT}

FileNames == {"", "resume", "resume.txt", "notes.md", "cv.PDF", "cv.docx",
              "resume.xyz"}
FileTexts == {"", WEAK_RESUME, Join(<<HEADINGS, GOOD>>, "\n")}
LibOutcomes == {"text", "no_text", "throws"}
Methods == {"OPTIONS", "GET", "POST"}

(***************************************************************************)
(* State: the hash seed of the running Python process, the last request    *)
(* made, the response it got, and the response an earlier issue of the     *)
(* same request got.                                                       *)
(***************************************************************************)
VARIABLES hashSeed, request, response, previous

(***************************************************************************)
(* State of a scoring whose five dimension scorers run as separate tasks:  *)
(* the attributes of the ATSScorer instance the tasks share, the           *)
(* (resume_text, job_description) pair being scored and the results of     *)
(* the tasks that have finished.                                           *)
(***************************************************************************)
VARIABLES self, job, results

taskVars == <<self, job, results>>

(***************************************************************************)
(* State of a direct call of _categorize_issues: the feedback lists passed *)
(* and the three lists returned.                                           *)
(***************************************************************************)
VARIABLES categorizeArgs, categorized

classifierVars == <<categorizeArgs, categorized>>

(***************************************************************************)
(* backend/services/gemini_service.py: the shared GeminiService.  The      *)
(* clock, the call times the RateLimiter keeps, the _call_with_retry in    *)
(* progress (the calls are made one after another), and the times the      *)
(* Gemini API was contacted.  started and failures count the calls begun   *)
(* and the failed attempts, to bound the behaviours explored.              *)
(***************************************************************************)
VARIABLES now, calls, invocation, contacted, started, failures

geminiVars == <<now, calls, invocation, contacted, started, failures>>

(***************************************************************************)
(* State of a direct call of one of the five _score_* methods: the         *)
(* dimension, the arguments and the DimensionResult returned.              *)
(***************************************************************************)
VARIABLES scoring

(***************************************************************************)
(* State of the React component App (unnamed/part_000): its useState       *)
(* values, and the numbers of fetch requests of handleCheckAts and of       *)
(* handleUpload that have not settled yet.                                  *)
(***************************************************************************)
VARIABLES atsScore, atsFeedback, atsLoading, atsError, uploadFile, uploadLoading,
          uploadError, atsPending, uploadPending

uiVars == <<atsScore, atsFeedback, atsLoading, atsError, uploadFile, uploadLoading,
            uploadError, atsPending, uploadPending>>

\* the variables the calls of the scorer's clients leave alone
elsewhere == <<taskVars, classifierVars, geminiVars, scoring, uiVars>>

\* the variables a scoring by tasks leaves alone
outsideTasks == <<classifierVars, geminiVars, scoring, uiVars>>

\* the variables a call of _categorize_issues leaves alone
outsideClassifier ==
    <<hashSeed, request, response, previous, taskVars, geminiVars, scoring, uiVars>>

\* the variables the GeminiService leaves alone
outsideGemini ==
    <<hashSeed, request, response, previous, taskVars, classifierVars, scoring, uiVars>>

\* the variables a call of a _score_* method leaves alone
outsideScorer ==
    <<hashSeed, request, response, previous, taskVars, classifierVars, geminiVars,
      uiVars>>

\* the variables the component App leaves alone
outsideUI ==
    <<hashSeed, request, response, previous, taskVars, classifierVars, geminiVars,
      scoring>>

vars == <<hashSeed, request, response, previous, elsewhere>>

NoRequest == [op |-> "none"]
NoResponse == [kind |-> "none"]

Returned(value) == [kind |-> "return", value |-> value]

\* what the program answers to a request under a given hash seed
Respond(req, seed) ==
    CASE req.op = "score_resume" ->
             Returned(score_resume(req.resume_text, req.job_description, seed))
      [] req.op = "analyze" -> analyze_resume(req, seed)
      [] req.op = "upload" -> upload_resume(req)
      [] req.op = "score-file" -> scoreFileHandler(req)

\* ATSScorer.__init__: the attributes of a new instance
__init__ == [total_weight |-> 100, scores |-> <<>>]

\* no scoring by tasks is under way
NoJob == [op |-> "none"]

\* no task has finished
NoResults == [d \in {} |-> {}]

Dimensions == {"formatting", "keywords", "impact", "content", "structure"}

\* run_scorer with the score kept in an attribute of the instance instead
\* of a local variable: a scorer starts from the score the scorer before it
\* left, not from 100
run_scorer_shared_score(self_, dimension, resume_text, job_description, seed) ==
    [self |->
         [self_ EXCEPT !.total_weight =
              IF dimension = "formatting"
              THEN _score_formatting(resume_text).score.num
              ELSE self_.total_weight],
     result |->
         CASE dimension = "formatting" -> _score_formatting(resume_text)
           [] dimension = "keywords" ->
                  _score_keywords(resume_text, job_description, seed)
           [] dimension = "impact" -> _score_impact(resume_text)
           [] dimension = "content" -> _score_content(resume_text)
           [] dimension = "structure" ->
                  [_score_structure(resume_text) EXCEPT
                       !.score = ClampLow(QSub(@, 100 - self_.total_weight))]]

\* the scorer a task runs for one dimension, as score_resume calls it: what
\* it returns and what it leaves in the attributes of the instance.  No
\* scorer reads or writes an attribute.
run_scorer(self_, dimension, resume_text, job_description, seed) ==
    [self |-> self_,
     result |->
         CASE dimension = "formatting" -> _score_formatting(resume_text)
           [] dimension = "keywords" ->
                  _score_keywords(resume_text, job_description, seed)
           [] dimension = "impact" -> _score_impact(resume_text)
           [] dimension = "content" -> _score_content(resume_text)
           [] dimension = "structure" -> _score_structure(resume_text)]

\* the task variables before any scoring by tasks
TasksIdle ==
    /\ self = __init__
    /\ job = NoJob
    /\ results = NoResults

NotCategorized == [critical_issues |-> <<>>, warnings |-> <<>>, improvements |-> <<>>]

\* no call of _categorize_issues made
ClassifierIdle ==
    /\ categorizeArgs = <<>>
    /\ categorized = NotCategorized

(***************************************************************************)
(* class RateLimiter, class GeminiService                                  *)
(***************************************************************************)
max_calls == 10
time_window == 60
max_retries == 3
timeout == 30
SECONDS_PER_DAY == 86400

MaxInvocations == 11
MaxFailures == 3
MaxTime == 100

\* timedelta.seconds of later - earlier: the seconds within the day
seconds(later, earlier) == (later - earlier) % SECONDS_PER_DAY

\* RateLimiter.is_allowed at the time now_: the list it keeps and its answer
is_allowed_answer(kept, now_) ==
    IF Len(kept) < max_calls
    THEN [calls |-> Append(kept, now_), allowed |-> TRUE]
    ELSE [calls |-> kept, allowed |-> FALSE]

is_allowed(calls_, now_) ==
    is_allowed_answer(SelectSeq(calls_, LAMBDA call_time :
                                    seconds(now_, call_time) < time_window),
                      now_)

\* no _call_with_retry in progress
NoInvocation ==
    [pc |-> "idle", attempt |-> 0, at |-> 0, slept |-> <<>>, result |-> "none",
     why |-> "none"]

\* generate_content has been called for the attempt, at the time at_
Calling(inv, attempt_, at_) ==
    [inv EXCEPT !.pc = "calling", !.attempt = attempt_, !.at = at_]

\* return of _call_with_retry
Return(inv, result_, why_) ==
    [inv EXCEPT !.pc = "returned", !.result = result_, !.why = why_]

\* an except clause of the attempt: the fallback after the last attempt,
\* else asyncio.sleep(2 ** attempt)
except(inv, now_) ==
    IF inv.attempt = max_retries - 1
    THEN Return(inv, "fallback", "exhausted")
    ELSE [inv EXCEPT !.pc = "sleeping", !.at = now_ + 2^inv.attempt,
                     !.slept = Append(@, 2^inv.attempt)]

\* the times of contacted still within the window at the time now_
recent(contacted_, now_) ==
    SelectSeq(contacted_, LAMBDA t : now_ - t < time_window)

\* the GeminiService at import: no call made
GeminiIdle ==
    /\ now = 0
    /\ calls = <<>>
    /\ invocation = NoInvocation
    /\ contacted = <<>>
    /\ started = 0
    /\ failures = 0

\* the initial values of the variables outside the scorer's clients
NoScoring == [dimension |-> "none"]

\* the useState values of App, with no request made (<<>> stands for null)
UIIdle ==
    /\ atsScore = <<>>
    /\ atsFeedback = <<>>
    /\ atsLoading = FALSE
    /\ atsError = ""
    /\ uploadFile = <<>>
    /\ uploadLoading = FALSE
    /\ uploadError = ""
    /\ atsPending = 0
    /\ uploadPending = 0

ElsewhereIdle ==
    TasksIdle /\ ClassifierIdle /\ GeminiIdle /\ scoring = NoScoring /\ UIIdle

Init ==
    /\ hashSeed \in 0..(NumSeeds - 1)
    /\ request = NoRequest
    /\ response = NoResponse
    /\ previous = NoResponse
    /\ ElsewhereIdle

\* scorer.score_resume(resume_text, job_description) called directly
CallScoreResume ==
    \E text \in Texts : \E jd \in JobDescriptions(text) :
        LET req == [op |-> "score_resume", resume_text |-> text,
                    job_description |-> jd]
        IN  /\ request = NoRequest
            /\ request' = req
            /\ response' = Returned(score_resume(text, jd, hashSeed))
            /\ UNCHANGED <<hashSeed, previous, elsewhere>>

\* POST /api/checker/analyze
AnalyzeResume ==
    \E text \in Texts : \E jd \in {<<>>, <<STRONG_JD>>} :
        LET req == [op |-> "analyze", resume_text |-> text, job_description |-> jd]
        IN  /\ request = NoRequest
            /\ request' = req
            /\ response' = analyze_resume(req, hashSeed)
            /\ UNCHANGED <<hashSeed, previous, elsewhere>>

\* POST /api/checker/upload
UploadResume ==
    \E name \in {"resume.txt", "cv.pdf", "cv.docx", "resume.xyz"} :
    \E bytes \in FileTexts : \E lib \in LibOutcomes :
        LET req == [op |-> "upload", filename |-> name, content |-> bytes,
                    lib |-> lib]
        IN  /\ request = NoRequest
            /\ request' = req
            /\ response' = upload_resume(req)
            /\ UNCHANGED <<hashSeed, previous, elsewhere>>

\* the Netlify function score-file
ScoreFile ==
    \E method \in Methods :
    \E body \in {<<>>} \cup
                {<<[filename |-> name, contentBase64 |-> c]>> :
                    name \in FileNames,
                    c \in {<<>>} \cup {<<t>> : t \in FileTexts}} :
    \E lib \in LibOutcomes :
        LET req == [op |-> "score-file", httpMethod |-> method, body |-> body,
                    lib |-> lib]
        IN  /\ request = NoRequest
            /\ request' = req
            /\ response' = scoreFileHandler(req)
            /\ UNCHANGED <<hashSeed, previous, elsewhere>>

\* the same request is made a second time
Repeat ==
    /\ request # NoRequest
    /\ previous = NoResponse
    /\ previous' = response
    /\ response' = Respond(request, hashSeed)
    /\ UNCHANGED <<hashSeed, request, elsewhere>>

\* the Python process is restarted: a new interpreter, a new hash salt
Restart ==
    /\ \E seed \in 0..(NumSeeds - 1) : seed # hashSeed /\ hashSeed' = seed
    /\ UNCHANGED <<request, response, previous, elsewhere>>

\* the client is done with the response
Forget ==
    /\ request # NoRequest
    /\ request' = NoRequest
    /\ response' = NoResponse
    /\ previous' = NoResponse
    /\ UNCHANGED <<hashSeed, elsewhere>>

Next ==
    \/ CallScoreResume
    \/ AnalyzeResume
    \/ UploadResume
    \/ ScoreFile
    \/ Repeat
    \/ Restart
    \/ Forget

Spec == Init /\ [][Next]_vars

(***************************************************************************)
(* Vocabulary of the properties                                            *)
(***************************************************************************)
\* the response carries a ScoreReport
HasReport ==
    \/ response.kind = "return"
    \/ (response.kind = "http" /\ request.op = "analyze" /\ response.status = 200)

\* the ScoreReport the response carries
Report == IF response.kind = "return" THEN response.value ELSE response.body.analysis

\* the request is a scoring of its resume_text with no job description
ScoredWithoutJD ==
    /\ HasReport
    /\ \/ (request.op = "score_resume" /\ request.job_description = "")
       \/ (request.op = "analyze" /\ request.job_description = <<>>)

\* the job description the request is scored against ("" for none)
RequestJD ==
    IF request.op = "analyze" THEN OrEmpty(request.job_description)
    ELSE request.job_description

InRange(score) == QLeq(QInt(0), score) /\ QLeq(score, QInt(100))

\* the feedback strings of the dimensions that have a feedback list
DimensionFeedback(r) ==
    Range(r.breakdown.formatting.feedback) \cup Range(r.breakdown.impact.feedback)
    \cup Range(r.breakdown.content.feedback) \cup Range(r.breakdown.structure.feedback)

ClassifiedLists == {"critical_issues", "warnings", "improvements"}

\* a word with an '@' inside it
HasEmailAddress(text) ==
    \E i \in 2..(Len(text) - 1) :
        /\ CharAt(text, i) = "@"
        /\ CharAt(text, i - 1) \notin Whitespace
        /\ CharAt(text, i + 1) \notin Whitespace

\* some line of the text is the heading h, alone on a line of under 30
\* characters
HasHeadingLine(lines, h) ==
    \E k \in 1..Len(lines) : Trim(lines[k]) = h /\ Len(lines[k]) < 30

\* Scenario B: upper-case EXPERIENCE, EDUCATION and SKILLS heading lines,
\* bullet markers, an email address, at least 3 numeric metrics and at least
\* 3 terms of the technical vocabulary
ScenarioB(text) ==
    /\ \A h \in {"EXPERIENCE", "EDUCATION", "SKILLS"} :
           HasHeadingLine(SplitChar(text, "\n"), h)
    /\ Count(CH_BULLET, text) + Count("-", text) + Count("*", text) > 0
    /\ HasEmailAddress(text)
    /\ MetricsCount(text) >= 3
    /\ Cardinality(FoundIn(Range(TECHNICAL_KEYWORDS), Lower(text))) >= 3

\* the keywords _score_keywords extracts from a text
KeywordsOf(text) == Range(_extract_keywords(Lower(text)))

(***************************************************************************)
(* Properties                                                              *)
(***************************************************************************)

\* C1: for every resume text and job description, each of the five
\* dimension scores and the overall score of the report lie in [0, 100]
\* (the overall score is kept in tenths).
C1_ScoresWithin0And100 ==
    HasReport =>
        /\ InRange(Report.breakdown.formatting.score)
        /\ InRange(Report.breakdown.keywords.score)
        /\ InRange(Report.breakdown.impact.score)
        /\ InRange(Report.breakdown.content.score)
        /\ InRange(Report.breakdown.structure.score)
        /\ Report.overall_score \in 0..1000

\* C2: in every report, each feedback string of a dimension's feedback list
\* is in exactly one of critical_issues, warnings and improvements.
C2_FeedbackInExactlyOneList ==
    HasReport =>
        \A s \in DimensionFeedback(Report) :
            Cardinality({l \in ClassifiedLists : s \in Range(Report[l])}) = 1

\* C2, its case: a report whose dimensions gave feedback that went to each
\* of the three lists.
C2_AllThreeListsUsed ==
    /\ HasReport
    /\ \A l \in ClassifiedLists :
           Range(Report[l]) \cap DimensionFeedback(Report) # {}

\* C3: the weak resume of the documentation's test, scored with no job
\* description, gets an overall score under 50 and a non-empty
\* critical_issues list.
C3_WeakResumeBelow50 ==
    (ScoredWithoutJD /\ request.resume_text = WEAK_RESUME) =>
        /\ Report.overall_score < 500
        /\ Report.critical_issues # <<>>

\* C4 as stated: every Scenario B resume scored with no job description gets
\* an overall score above 70.
C4_ScenarioBAbove70 ==
    (ScoredWithoutJD /\ ScenarioB(request.resume_text)) =>
        Report.overall_score > 700

\* C4, amended: every Scenario B resume scored with no job description gets
\* a keywords score of 100, a content score of at least 100 and an overall
\* score of at least 69.4.
C4_ScenarioBAtLeast694 ==
    (ScoredWithoutJD /\ ScenarioB(request.resume_text)) =>
        /\ Report.breakdown.keywords.score = QInt(100)
        /\ QLeq(QInt(100), Report.breakdown.content.score)
        /\ Report.overall_score >= 694

\* C4, its case: a Scenario B resume scored with no job description whose
\* overall score is not above 70.
C4_ScenarioBNotAbove70 ==
    /\ ScoredWithoutJD
    /\ ScenarioB(request.resume_text)
    /\ Report.overall_score <= 700

\* C5: the strong resume of the documentation's test, scored against the
\* job description of that test, gets an overall score above 70.
C5_StrongResumeWithJDAbove70 ==
    (/\ HasReport
     /\ request.resume_text = STRONG_RESUME
     /\ RequestJD = STRONG_JD) =>
        Report.overall_score > 700

\* C6 as stated: a Scenario B resume scored against a job description whose
\* keywords are a superset of the resume's keywords gets a keywords score
\* under its score with no job description, and a non-empty missing list.
C6_SupersetJDLowersKeywords ==
    (/\ HasReport
     /\ RequestJD # ""
     /\ ScenarioB(request.resume_text)
     /\ KeywordsOf(request.resume_text) \subseteq KeywordsOf(RequestJD)) =>
        /\ QLess(Report.breakdown.keywords.score,
                 _score_keywords(request.resume_text, "", hashSeed).score)
        /\ Report.breakdown.keywords.missing # <<>>

\* C6, amended: when moreover the job description has a keyword the resume
\* lacks, the keywords score is under the score with no job description and
\* the missing list is not empty.
C6_ProperSupersetJDLowersKeywords ==
    (/\ HasReport
     /\ RequestJD # ""
     /\ ScenarioB(request.resume_text)
     /\ KeywordsOf(request.resume_text) \subseteq KeywordsOf(RequestJD)
     /\ KeywordsOf(RequestJD) # KeywordsOf(request.resume_text)) =>
        /\ QLess(Report.breakdown.keywords.score,
                 _score_keywords(request.resume_text, "", hashSeed).score)
        /\ Report.breakdown.keywords.missing # <<>>

\* C6, its case: a Scenario B resume scored against a job description that
\* has all the keywords of the resume and more.
C6_ScoredAgainstProperSuperset ==
    /\ HasReport
    /\ RequestJD # ""
    /\ ScenarioB(request.resume_text)
    /\ KeywordsOf(request.resume_text) \subseteq KeywordsOf(RequestJD)
    /\ KeywordsOf(RequestJD) # KeywordsOf(request.resume_text)

\* C7: scoring the same (text, job_description) pair a second time yields a
\* report identical to the first, the order of every list included.
C7_SameRequestSameReport ==
    (HasReport /\ previous # NoResponse) => response = previous

\* the score-file request carries a file name and file content
HasUpload ==
    /\ request.op = "score-file"
    /\ request.httpMethod = "POST"
    /\ request.body # <<>>
    /\ request.body[1].filename # ""
    /\ request.body[1].contentBase64 # <<>>

\* what extractTextFromUpload does with the upload
Extraction ==
    extractTextFromUpload(request.body[1].filename,
                          request.body[1].contentBase64[1], request.lib)

\* the request submits a text to score: the resume_text of /analyze, or the
\* text score-file.js extracted from the upload
SubmitsText ==
    request.op = "analyze" \/ (HasUpload /\ ~Extraction.threw)

SubmittedText ==
    IF request.op = "analyze" THEN request.resume_text ELSE Extraction.text

\* C8: a score request whose text is shorter than the minimum length is
\* answered with a client error (4xx): not with a server error, not with a
\* score.
C8_ShortTextRejectedAsClientError ==
    (SubmitsText /\ Len(SubmittedText) < MIN_RESUME_CHARS) =>
        response.status \in 400..499

\* the request uploads a file with content under a name whose extension is
\* none of the supported ones
UploadsUnsupported ==
    \/ /\ request.op = "upload"
       /\ \A e \in {".pdf", ".docx", ".txt"} : ~EndsWith(request.filename, e)
    \/ /\ HasUpload
       /\ Extension(request.body[1].filename) \notin {"txt", "md", "pdf", "docx"}

UploadedName ==
    IF request.op = "upload" THEN request.filename ELSE request.body[1].filename

\* what the same endpoint answers when the extraction library fails on a
\* file with a supported extension
ExtractionFailureResponse ==
    IF request.op = "upload"
    THEN upload_resume([request EXCEPT !.filename = "cv.pdf", !.lib = "throws"])
    ELSE scoreFileHandler([request EXCEPT !.body[1].filename = "cv.pdf",
                                          !.lib = "throws"])

\* the message of an error response
ErrorText ==
    IF request.op = "upload" THEN response.body.detail ELSE response.body.error

\* C9: an upload with an unsupported extension fails with an outcome that
\* names the extension and differs from the outcome of a failed extraction.
C9_UnsupportedFormatNamed ==
    UploadsUnsupported =>
        /\ response.status # 200
        /\ Contains(Extension(UploadedName), Lower(ErrorText))
        /\ response # ExtractionFailureResponse

\* the upload has a supported extension and its extraction fails or yields
\* no text
ExtractsNoText ==
    /\ HasUpload
    /\ Extension(request.body[1].filename) \in {"txt", "md", "pdf", "docx"}
    /\ (Extraction.threw \/ Extraction.text = "")

\* C10: when the extraction yields no text or fails, the request fails:
\* no score is returned for an empty text.
C10_NoScoreFromEmptyText ==
    ExtractsNoText => response.status # 200

\* valid email addresses a resume can gain; the last one also brings the
\* words 'summary' and 'degree'
EmailsToAdd == {"a@b.co", "jane.doe@example.com", "summary@degree.org"}

\* the ways of adding an email address to a text: on a new last line, at
\* the end of the last line, on a new first line
WithEmail(text, email) ==
    {text \o "\n" \o email, text \o " " \o email, email \o "\n" \o text}

\* C11: adding a valid email address (before or after the text) to a text
\* with no '@' never decreases the content score.
C11_EmailNeverLowersContent ==
    (HasReport /\ ~Contains("@", request.resume_text)) =>
        \A email \in EmailsToAdd :
            \A added \in WithEmail(request.resume_text, email) :
                QLeq(Report.breakdown.content.score, _score_content(added).score)

\* C11, its case: a scored text with no '@' whose content score rises by
\* exactly the 10 points of the email deduction once an address is added.
C11_EmailRaisesContentBy10 ==
    /\ HasReport
    /\ ~Contains("@", request.resume_text)
    /\ _score_content(request.resume_text \o "\na@b.co").score
           = QSub(Report.breakdown.content.score, -10)

(***************************************************************************)
(* The five dimension scorers of one score_resume run as separate tasks,   *)
(* in any order; the report is assembled when all have finished.           *)
(***************************************************************************)
\* the resume texts scored by tasks: the weak resume of test_scorer, a
\* resume with little feedback and one with feedback in every dimension
TaskTexts == {WEAK_RESUME, Join(<<HEADINGS, GOOD>>, "\n"),
              Join(<<HEADINGS, BAD>>, "\n")}

\* a scoring is started: nothing is scored yet
StartScoring ==
    \E text \in TaskTexts : \E jd \in {"", STRONG_JD} :
        /\ job = NoJob
        /\ job' = [op |-> "score", resume_text |-> text, job_description |-> jd,
                   order |-> <<>>]
        /\ UNCHANGED <<hashSeed, request, response, previous, self, results, outsideTasks>>

\* one of the scorers that has not run yet runs to its end
RunScorer ==
    \E dimension \in Dimensions \ DOMAIN results :
        LET outcome == run_scorer(self, dimension, job.resume_text,
                                  job.job_description, hashSeed)
        IN  /\ job # NoJob
            /\ results' = (dimension :> outcome.result) @@ results
            /\ self' = outcome.self
            /\ job' = [job EXCEPT !.order = Append(@, dimension)]
            /\ UNCHANGED <<hashSeed, request, response, previous, outsideTasks>>

\* all five have run: the overall score, the classified lists and the
\* returned dict, as score_resume builds them from the five results
Assemble ==
    /\ DOMAIN results = Dimensions
    /\ response = NoResponse
    /\ request' = [op |-> "score_resume", resume_text |-> job.resume_text,
                   job_description |-> job.job_description]
    /\ response' = Returned(categorized_report(results["formatting"],
                                               results["keywords"],
                                               results["impact"],
                                               results["content"],
                                               results["structure"]))
    /\ UNCHANGED <<hashSeed, previous, taskVars, outsideTasks>>

\* the caller takes the report
Finish ==
    /\ job # NoJob
    /\ response # NoResponse
    /\ job' = NoJob
    /\ results' = NoResults
    /\ request' = NoRequest
    /\ response' = NoResponse
    /\ UNCHANGED <<hashSeed, previous, self, outsideTasks>>

ParallelNext ==
    \/ StartScoring
    \/ RunScorer
    \/ Assemble
    \/ Finish

ParallelSpec == Init /\ [][ParallelNext]_vars

\* what score_resume returns for the pair being scored, its scorers run one
\* after the other
Sequential == score_resume(job.resume_text, job.job_description, hashSeed)

\* C12: whatever the order in which the five scorers run, the report
\* assembled from their results (the five results are in its breakdown) is
\* the report of the sequential score_resume, and the attributes of the
\* scorer instance are as __init__ left them.
C12_AnyOrderSameReport ==
    /\ self = __init__
    /\ (job # NoJob /\ response # NoResponse) => response = Returned(Sequential)

\* C12, its case: a report assembled after the scorers ran in the reverse
\* of the sequential order.
C12_AssembledAfterReverseOrder ==
    /\ job # NoJob
    /\ response # NoResponse
    /\ job.order = <<"structure", "content", "impact", "keywords", "formatting">>

(***************************************************************************)
(* C13: the overall score is the weighted sum, to one decimal              *)
(***************************************************************************)
\* the weights the claim states, in hundredths
StatedWeights ==
    [formatting |-> 20, keywords |-> 30, impact |-> 20, content |-> 20,
     structure |-> 10]

\* the product of the denominators of the five scores
CommonDen(b) ==
    b.formatting.score.den * b.keywords.score.den * b.impact.score.den
    * b.content.score.den * b.structure.score.den

\* weight * score of one dimension, times d (a multiple of every denominator)
StatedTerm(b, dimension, d) ==
    StatedWeights[dimension] * b[dimension].score.num
    * (d \div b[dimension].score.den)

\* the stated weighted sum times 100 d
StatedSum(b, d) ==
    StatedTerm(b, "formatting", d) + StatedTerm(b, "keywords", d)
    + StatedTerm(b, "impact", d) + StatedTerm(b, "content", d)
    + StatedTerm(b, "structure", d)

\* tenths is a rounding to one decimal of the stated weighted sum: it lies
\* within half a tenth of it
RoundsStatedSum(tenths, sum, d) == 2 * Abs(tenths * 10 * d - sum) <= 10 * d

\* C13: in every report, whatever the request, overall_score is
\* 0.20 formatting + 0.30 keywords + 0.20 impact + 0.20 content
\* + 0.10 structure rounded to one decimal, and the weights sum to 1
C13_OverallIsWeightedSum ==
    /\ StatedWeights["formatting"] + StatedWeights["keywords"]
       + StatedWeights["impact"] + StatedWeights["content"]
       + StatedWeights["structure"] = 100
    /\ HasReport =>
           RoundsStatedSum(Report.overall_score,
                           StatedSum(Report.breakdown, CommonDen(Report.breakdown)),
                           CommonDen(Report.breakdown))

\* a report whose five scores are not all equal and whose weighted sum is
\* not a whole number of tenths, so that the weights and the rounding show
C13_RoundedUnequalScores ==
    /\ HasReport
    /\ Report.breakdown.keywords.score # Report.breakdown.impact.score
    /\ StatedSum(Report.breakdown, CommonDen(Report.breakdown))
           % (10 * CommonDen(Report.breakdown)) # 0

(***************************************************************************)
(* C14: the classifier takes the first matching branch                     *)
(***************************************************************************)
MaxItems == 2

\* one-word feedback wordings: the words the classifier looks for, in
\* either case, one ("entry") that only contains one, and one without any
SampleWords ==
    {"Missing", "REMOVE", "avoid", "Breaks", "Consider", "TRY", "reduce",
     "entry", "fine"}

\* the two words the claim names
NamedWords == {"missing", "Consider"}

\* feedback wordings: one word, or a named word before or after another
\* named word or a word the classifier does not look for
SampleItems ==
    SampleWords
    \cup {w \o " " \o v : w \in NamedWords \cup {"fine"}, v \in NamedWords}
    \cup {v \o " " \o w : w \in NamedWords \cup {"fine"}, v \in NamedWords}

SeqsUpTo(S, n) == UNION {[1..k -> S] : k \in 0..n}

\* _categorize_issues is called with the items in one list, or with the
\* first item in a list of its own and an empty list between the two
Categorize ==
    /\ categorizeArgs = <<>>
    /\ \E items \in SeqsUpTo(SampleItems, MaxItems) : \E k \in {0, 1} :
        /\ k <= Len(items)
        /\ categorizeArgs' = IF k = 0 THEN <<items>>
                             ELSE <<SubSeq(items, 1, k), <<>>,
                                    SubSeq(items, k + 1, Len(items))>>
        /\ categorized' = _categorize_issues(categorizeArgs')
        /\ UNCHANGED outsideClassifier

\* the caller drops the three lists
Uncategorize ==
    /\ categorizeArgs # <<>>
    /\ categorizeArgs' = <<>>
    /\ categorized' = NotCategorized
    /\ UNCHANGED outsideClassifier

ClassifierNext == Categorize \/ Uncategorize

ClassifierSpec == Init /\ [][ClassifierNext]_vars

\* the wording, lower-cased, contains one of the words
HasWord(item, words) == \E w \in words : Contains(w, Lower(item))

\* the list the claim gives a wording
StatedList(item) ==
    IF HasWord(item, {"missing", "remove", "avoid", "breaks"}) THEN "critical_issues"
    ELSE IF HasWord(item, {"consider", "try", "reduce"}) THEN "improvements"
    ELSE "warnings"

\* the items of the sequence the claim gives the list, in order
StatedItems(items, list) == SelectSeq(items, LAMBDA item : StatedList(item) = list)

\* C14: each of the three lists returned holds, in order, the items whose
\* lower-cased wording takes the first matching test to it: critical for
\* missing/remove/avoid/breaks, else improvement for consider/try/reduce,
\* else warning; so a wording with both "missing" and "consider" is
\* critical, and equal wordings are in the same list
C14_FirstMatchingBranch ==
    \A list \in ClassifiedLists :
        categorized[list] = StatedItems(Flatten(categorizeArgs), list)

\* a wording with both "missing" and "consider", passed twice, is twice in
\* critical_issues
C14_BothWordsTwiceCritical ==
    /\ Len(categorized.critical_issues) = 2
    /\ categorized.critical_issues[1] = categorized.critical_issues[2]
    /\ Contains("consider", Lower(categorized.critical_issues[1]))
    /\ Contains("missing", Lower(categorized.critical_issues[1]))

(***************************************************************************)
(* C15: the Keywords score with a job description                          *)
(***************************************************************************)
\* whitespace tokens of the lower-cased text, longer than 3 and no stop-word
StatedKeywords(text) ==
    SelectSeq(SplitWords(Lower(text)),
              LAMBDA w : Len(w) > 3 /\ w \notin {"the", "a", "an", "and", "or", "in",
                                                "at", "to", "for", "of", "is",
                                                "was", "are"})

\* how many of the job keywords are resume keywords
MatchedCount(jd_keywords, resume_keywords) ==
    Cardinality({i \in 1..Len(jd_keywords) : jd_keywords[i] \in Range(resume_keywords)})

\* the one penalty of the match ratio m / n: the first tier it is below
StatedPenalty(m, n) ==
    IF 10 * m < 3 * n THEN 30
    ELSE IF 10 * m < 5 * n THEN 15
    ELSE IF 10 * m < 7 * n THEN 5
    ELSE 0

\* 100 * m / n minus the penalty, clamped to [0, 100]
StatedClamp(a) == IF a.num < 0 THEN QInt(0) ELSE IF QLeq(QInt(100), a) THEN QInt(100) ELSE a
StatedJDScore(m, n) == StatedClamp(QSub(Q(100 * m, n), StatedPenalty(m, n)))

\* the request is scored against a job description
ScoredWithJD == HasReport /\ request.op \in {"score_resume", "analyze"} /\ RequestJD # ""

\* C15: with a job description, the Keywords score is
\* 100 * matched / max(number of job keywords, 1) minus the penalty of the
\* first tier the match ratio is below (30 below 0.3, 15 below 0.5, 5 below
\* 0.7, else 0), clamped to [0, 100]
C15_KeywordsScoreWithJD ==
    ScoredWithJD =>
        Report.breakdown.keywords.score
            = StatedJDScore(MatchedCount(StatedKeywords(RequestJD),
                                         StatedKeywords(request.resume_text)),
                            Max(Len(StatedKeywords(RequestJD)), 1))

\* a scoring whose match ratio is in [0.3, 0.5): below two of the three
\* thresholds, and high enough for the penalty to show in the score
C15_RatioBelowTwoThresholds ==
    /\ ScoredWithJD
    /\ 10 * MatchedCount(StatedKeywords(RequestJD), StatedKeywords(request.resume_text))
           >= 3 * Len(StatedKeywords(RequestJD))
    /\ 10 * MatchedCount(StatedKeywords(RequestJD), StatedKeywords(request.resume_text))
           < 5 * Len(StatedKeywords(RequestJD))
    /\ Report.breakdown.keywords.score = QInt(25)

(***************************************************************************)
(* C16: the Keywords score without a job description                       *)
(***************************************************************************)
\* the terms of the technical vocabulary that occur in the lower-cased text
TermsFound(text) == {k \in Range(TECHNICAL_KEYWORDS) : Contains(k, Lower(text))}

\* 70 for no term, 85 for one or two, 100 for three or more
StatedTermScore(found) == IF found = 0 THEN 70 ELSE IF found <= 2 THEN 85 ELSE 100

\* C16: without a job description (None or ""), the Keywords score is 70,
\* 85 or 100 for no, one or two, three or more terms of TECHNICAL_KEYWORDS
\* in the lower-cased text; matched lists exactly the terms found, each
\* once, and missing is empty
C16_KeywordsScoreWithoutJD ==
    ScoredWithoutJD =>
        /\ Report.breakdown.keywords.score
               = QInt(StatedTermScore(Cardinality(TermsFound(request.resume_text))))
        /\ Range(Report.breakdown.keywords.matched) = TermsFound(request.resume_text)
        /\ Len(Report.breakdown.keywords.matched)
               = Cardinality(TermsFound(request.resume_text))
        /\ Report.breakdown.keywords.missing = <<>>

\* a request without job_description (None) whose text has exactly one
\* term, inside a longer word, scored 85
C16_OneTermScores85 ==
    /\ ScoredWithoutJD
    /\ request.op = "analyze"
    /\ TermsFound(request.resume_text) = {"rest"}
    /\ Report.breakdown.keywords.score = QInt(85)

(***************************************************************************)
(* GeminiService._call_with_retry, called by the request handlers          *)
(***************************************************************************)
Outcomes == {"text", "empty", "timeout", "api_error", "error"}

\* _call_with_retry is entered: the rate limit check, then the fallback or
\* the first call of generate_content
CallWithRetry ==
    /\ invocation.pc \in {"idle", "returned"}
    /\ started < MaxInvocations
    /\ started' = started + 1
    /\ calls' = is_allowed(calls, now).calls
    /\ IF is_allowed(calls, now).allowed
       THEN /\ invocation' = Calling(NoInvocation, 0, now)
            /\ contacted' = Append(contacted, now)
       ELSE /\ invocation' = Return(NoInvocation, "fallback", "rate_limit")
            /\ UNCHANGED contacted
    /\ UNCHANGED <<now, failures, outsideGemini>>

\* the await of the attempt ends: with a response (with or without text)
\* or an exception before the timeout, or with the timeout
AttemptEnds ==
    /\ invocation.pc = "calling"
    /\ \E outcome \in Outcomes :
        /\ (outcome = "timeout") <=> (now - invocation.at >= timeout)
        /\ IF outcome = "text"
           THEN /\ invocation' = Return(invocation, "text", "text")
                /\ UNCHANGED failures
           ELSE IF outcome = "empty"
           THEN /\ invocation' = Return(invocation, "fallback", "empty")
                /\ UNCHANGED failures
           ELSE /\ failures < MaxFailures
                /\ failures' = failures + 1
                /\ invocation' = except(invocation, now)
    /\ UNCHANGED <<now, calls, contacted, started, outsideGemini>>

\* asyncio.sleep returns: the next attempt calls generate_content
SleepEnds ==
    /\ invocation.pc = "sleeping"
    /\ now >= invocation.at
    /\ invocation' = Calling(invocation, invocation.attempt + 1, now)
    /\ contacted' = Append(contacted, now)
    /\ UNCHANGED <<now, calls, started, failures, outsideGemini>>

\* the time the call in progress waits for: the end of its sleep or its
\* timeout
Deadline(inv) == IF inv.pc = "sleeping" THEN inv.at ELSE inv.at + timeout

\* time passes up to the time the call in progress waits for
Advance ==
    /\ invocation.pc \in {"calling", "sleeping"}
    /\ now < Deadline(invocation)
    /\ Deadline(invocation) <= MaxTime
    /\ now' = Deadline(invocation)
    /\ contacted' = recent(contacted, now')
    /\ UNCHANGED <<calls, invocation, started, failures, outsideGemini>>

\* no call for a whole time window
Quiet ==
    /\ invocation.pc \in {"idle", "returned"}
    /\ now + time_window <= MaxTime
    /\ now' = now + time_window
    /\ contacted' = recent(contacted, now')
    /\ UNCHANGED <<calls, invocation, started, failures, outsideGemini>>

GeminiNext ==
    \/ CallWithRetry
    \/ AttemptEnds
    \/ SleepEnds
    \/ Advance
    \/ Quiet

GeminiSpec == Init /\ [][GeminiNext]_vars

(***************************************************************************)
(* C17: attempts and backoff of _call_with_retry                           *)
(***************************************************************************)
\* C17: a _call_with_retry that has returned made at most 3 attempts, and
\* one that returned the fallback because every attempt failed slept 1 s,
\* 2 s and 4 s after its failed attempts
C17_ThreeAttemptsBackoff124 ==
    invocation.pc = "returned" =>
        /\ invocation.attempt + 1 <= 3
        /\ invocation.why = "exhausted" => invocation.slept = <<1, 2, 4>>

(***************************************************************************)
(* C18: the rate limit                                                     *)
(***************************************************************************)
\* C18: the Gemini API is contacted at most 10 times in any 60 seconds
\* (contacted holds the contacts of the 60 seconds up to now), and a call
\* the rate limiter refuses returns the fallback without an attempt
C18_AtMost10ContactsPer60s ==
    /\ Len(recent(contacted, now)) <= 10
    /\ (invocation.pc = "returned" /\ invocation.why = "rate_limit") =>
           /\ invocation.result = "fallback"
           /\ invocation.slept = <<>>

\* the rate limiter has refused a call, which returned the fallback
RefusedCallFellBack ==
    /\ invocation.pc = "returned" /\ invocation.why = "rate_limit"
    /\ invocation.result = "fallback"

(***************************************************************************)
(* C19: matched and missing keywords with a job description                *)
(***************************************************************************)
\* the keyword set of a text
StatedKeywordSet(text) == Range(StatedKeywords(text))

\* C19: with a job description, matched holds the job-description keywords
\* (whitespace tokens of the lower-cased text, longer than 3, no stop-words)
\* that are resume keywords and missing those that are not: the two are
\* disjoint and together they are the job-description keyword set
C19_MatchedAndMissingSplitJDKeywords ==
    ScoredWithJD =>
        /\ Range(Report.breakdown.keywords.matched)
               = StatedKeywordSet(RequestJD) \cap StatedKeywordSet(request.resume_text)
        /\ Range(Report.breakdown.keywords.missing)
               = StatedKeywordSet(RequestJD) \ StatedKeywordSet(request.resume_text)
        /\ Range(Report.breakdown.keywords.matched)
               \cap Range(Report.breakdown.keywords.missing) = {}
        /\ Range(Report.breakdown.keywords.matched)
               \cup Range(Report.breakdown.keywords.missing)
               = StatedKeywordSet(RequestJD)

\* a scoring with matched and with missing keywords, against a job
\* description that has a stop-word and a three-letter word
C19_SomeMatchedSomeMissing ==
    /\ ScoredWithJD
    /\ Report.breakdown.keywords.matched # <<>>
    /\ Report.breakdown.keywords.missing # <<>>
    /\ \E w \in Range(SplitWords(Lower(RequestJD))) :
           Len(w) = 3 /\ w \notin StatedKeywordSet(RequestJD)
    /\ "and" \in Range(SplitWords(Lower(RequestJD)))

(***************************************************************************)
(* C20: the Formatting score and its feedback                              *)
(***************************************************************************)
\* the six checks the claim lists, in order: whether the text triggers the
\* check, its deduction, and the words its feedback entry begins with
StatedChecks(text, line_count) ==
    << [on |-> \E ch \in Range(ATS_BREAKING_CHARS) : Contains(ch, text),
        points |-> 10, says |-> "Remove special characters: "],
       [on |-> Contains("|", text) \/ Contains(CH_BOXH, text),
        points |-> 15, says |-> "Tables detected"],
       [on |-> Contains(CH_ZWSP, text) \/ Contains(CH_BOM, text),
        points |-> 10, says |-> "Hidden characters detected"],
       [on |-> line_count < 10, points |-> 5, says |-> "Resume seems too short"],
       [on |-> line_count > 100, points |-> 5, says |-> "Resume seems too long"],
       [on |-> Contains("  ", text), points |-> 3, says |-> "Remove extra spaces"] >>

\* the checks the text triggers, in check order
Triggered(text) ==
    SelectSeq(StatedChecks(text, Len(SplitChar(text, "\n"))), LAMBDA c : c.on)

\* the score and the feedback are those of the triggered checks
FormattingMatches(formatting, triggered) ==
    /\ formatting.score
           = QInt(Max(0, 100 - SumSeq([k \in DOMAIN triggered |-> triggered[k].points])))
    /\ Len(formatting.feedback) = Len(triggered)
    /\ \A k \in DOMAIN triggered :
           StartsWith(formatting.feedback[k], triggered[k].says)

\* a report on the text of a request
ScoredText == HasReport /\ request.op \in {"score_resume", "analyze"}

\* C20: the Formatting score is 100 minus the deductions of the triggered
\* checks (10 glyph, 15 pipe or box-drawing character, 10 zero-width or
\* byte-order-mark character, 5 under 10 lines, 5 over 100 lines, 3 double
\* space), floored at 0, and the feedback has one entry per triggered
\* check, in the order of the checks
C20_FormattingDeductionsAndFeedback ==
    ScoredText =>
        FormattingMatches(Report.breakdown.formatting, Triggered(request.resume_text))

\* a text of more than 100 lines with a box-drawing character and a
\* byte-order mark: three entries, 30 points off
C20_LongTextThreeDeductions ==
    /\ ScoredText
    /\ Len(SplitChar(request.resume_text, "\n")) > 100
    /\ Len(Report.breakdown.formatting.feedback) = 3
    /\ Report.breakdown.formatting.score = QInt(70)

(***************************************************************************)
(* One _score_* method called on its own                                   *)
(***************************************************************************)
\* a text of n words on one line
Words(n) == Times(Times("w ", 50), n \div 50) \o Times("w ", n % 50)

\* texts for the length tests of _score_structure: 200 and 1501 words, and
\* four lines of which two are longer than 100 characters
LengthTexts ==
    {Words(200), Words(1501),
     Join(<<"SUMMARY", Times("long line ", 11), Times("- item ", 15), "end">>, "\n")}

\* texts for the verb classes of _score_impact: a line with a strong and a
\* weak verb, a line with a weak verb and a line with neither
VerbTexts ==
    {"Led the team and helped with testing\nWorked on the build\nOther duties",
     "Designed and assisted\nHandled tickets"}

\* the texts a method is called with
ScorerTexts(dimension) ==
    IF dimension = "structure" THEN Texts \cup LengthTexts
    ELSE IF dimension = "impact" THEN Texts \cup VerbTexts
    ELSE Texts

\* the job descriptions _score_keywords is called with
KeywordJDs == {STRONG_JD, JD_STACK, JD_SHORT, JD_MOST}

\* the job descriptions a method is called with
ScorerJDs(dimension) == IF dimension = "keywords" THEN {""} \cup KeywordJDs ELSE {""}

\* a _score_* method is called with a text (and, for the keywords, with or
\* without a job description)
ScoreDimension ==
    /\ scoring = NoScoring
    /\ \E dimension \in Dimensions : \E text \in ScorerTexts(dimension) :
       \E jd \in ScorerJDs(dimension) :
           scoring' = [dimension |-> dimension, text |-> text,
                       job_description |-> jd,
                       result |-> run_scorer(__init__, dimension, text, jd,
                                             hashSeed).result]
    /\ UNCHANGED outsideScorer

\* after a call of _score_keywords with a job description, the method is
\* called again, with another text and job description (among them the text
\* itself as job description)
ScoreKeywordsAgain ==
    /\ scoring # NoScoring
    /\ scoring.dimension = "keywords"
    /\ scoring.job_description # ""
    /\ \E text \in TaskTexts : \E jd \in KeywordJDs \cup {text} :
           scoring' = [dimension |-> "keywords", text |-> text,
                       job_description |-> jd,
                       result |-> run_scorer(__init__, "keywords", text, jd,
                                             hashSeed).result]
    /\ UNCHANGED outsideScorer

\* the caller drops the result
DropScore ==
    /\ scoring # NoScoring
    /\ scoring' = NoScoring
    /\ UNCHANGED outsideScorer

ScorerNext == ScoreDimension \/ ScoreKeywordsAgain \/ DropScore

ScorerSpec == Init /\ [][ScorerNext]_vars

\* the method of the dimension has been called
Scored(dimension) == scoring.dimension = dimension

(***************************************************************************)
(* C21: the Impact score                                                   *)
(***************************************************************************)
\* the lines the claim has classified: at least 5 characters, not fully
\* upper-case
StatedImpactLines(text) ==
    SelectSeq(SplitChar(text, "\n"), LAMBDA l : Len(l) >= 5 /\ ~IsUpper(l))

\* strong, else weak, else none
StatedVerbClass(line) ==
    IF \E v \in STRONG_VERBS : Contains(v, Lower(line)) THEN "strong"
    ELSE IF \E v \in WEAK_VERBS : Contains(v, Lower(line)) THEN "weak"
    ELSE "none"

HowMany(lines, class) == Len(SelectSeq(lines, LAMBDA l : StatedVerbClass(l) = class))

\* 0.5 * strong_percent + 0.5 * (100 - weak_percent) over n lines, s of them
\* strong and w weak; 100 without lines
StatedImpactBase(n, s, w) ==
    IF n > 0 THEN Q(50 * s + 50 * (n - w), n) ELSE QInt(100)

StatedPassiveCount(text) ==
    Count("was ", text) + Count("were ", text) + Count("been ", text)
    + Count("is ", text) + Count("are ", text)

\* the base minus 20 for fewer than 3 metrics and 10 for more than 5
\* passive indicators, clamped to [0, 100]
StatedImpactScore(lines, metrics, passive) ==
    StatedClamp(QSub(StatedImpactBase(Len(lines), HowMany(lines, "strong"),
                                      HowMany(lines, "weak")),
                     (IF metrics < 3 THEN 20 ELSE 0)
                     + (IF passive > 5 THEN 10 ELSE 0)))

\* C21: the Impact score is the base of the classified lines (strong, else
\* weak, else none; 100 when no line is classified), minus 20 for fewer
\* than 3 metric matches, minus 10 for more than 5 passive indicators,
\* clamped to [0, 100]
C21_ImpactScore ==
    Scored("impact") =>
        scoring.result.score
            = StatedImpactScore(StatedImpactLines(scoring.text),
                                MetricsCount(scoring.text),
                                StatedPassiveCount(scoring.text))

\* a text with a line that has a strong and a weak verb, with fewer than 3
\* metrics
C21_StrongAndWeakOnOneLine ==
    /\ Scored("impact")
    /\ \E k \in DOMAIN StatedImpactLines(scoring.text) :
           /\ StatedVerbClass(StatedImpactLines(scoring.text)[k]) = "strong"
           /\ \E v \in WEAK_VERBS :
                  Contains(v, Lower(StatedImpactLines(scoring.text)[k]))
    /\ MetricsCount(scoring.text) < 3

\* the markers of the three sections and of the summary
StatedSectionMarkers ==
    {{"experience", "employment"}, {"education", "degree"}, {"skills", "technical"}}

StatedSummaryMarkers == {"summary", "objective", "profile"}

\* some marker of the set is in the lower-cased text
MarkerPresent(markers, text) == \E m \in markers : Contains(m, Lower(text))

StatedContentScore(text) ==
    100 - 20 * Cardinality({ms \in StatedSectionMarkers : ~MarkerPresent(ms, text)})
        + (IF MarkerPresent(StatedSummaryMarkers, text) THEN 5 ELSE 0)
        - (IF Contains("@", text) THEN 0 ELSE 10)

\* the findings of the feedback that the claim calls advisory
AdvisoryFindings(feedback) ==
    {k \in DOMAIN feedback :
        \/ StartsWith(feedback[k], "Consider adding a professional summary")
        \/ StartsWith(feedback[k], "Consider adding phone number")}

StatedHeadings(text) ==
    {k \in DOMAIN SplitChar(text, "\n") :
        /\ IsUpper(SplitChar(text, "\n")[k])
        /\ Len(SplitChar(text, "\n")[k]) < 30}

\* the lines of the text of more than 100 characters
StatedLongLines(text) ==
    {k \in DOMAIN SplitChar(text, "\n") : Len(SplitChar(text, "\n")[k]) > 100}

\* more than 30% of all lines are long
StatedManyLong(text) ==
    100 * Cardinality(StatedLongLines(text)) > 30 * Len(SplitChar(text, "\n"))

StatedNoBullets(text) ==
    ~(Contains(CH_BULLET, text) \/ Contains("-", text) \/ Contains("*", text))

StatedStructureScore(text) ==
    100 - (IF Cardinality(StatedHeadings(text)) < 3 THEN 15 ELSE 0)
        - (IF StatedManyLong(text) THEN 10 ELSE 0)
        - (IF StatedNoBullets(text) THEN 20 ELSE 0)
        - (IF WordCount(text) < 200 \/ WordCount(text) > 1500 THEN 10 ELSE 0)

\* C23: the Structure score is 100, minus 15 with fewer than 3 upper-case
\* lines under 30 characters, minus 10 when more than 30% of the lines
\* exceed 100 characters, minus 20 without any of the bullet markers, minus
\* 10 for a word count under 200 or over 1500, clamped to [0, 100]
C23_StructureScore ==
    Scored("structure") =>
        scoring.result.score = StatedClamp(QInt(StatedStructureScore(scoring.text)))

\* a text of more than 1500 words on one long line, scored 45
C23_LongResumeScored ==
    /\ Scored("structure")
    /\ WordCount(scoring.text) > 1500
    /\ StatedManyLong(scoring.text)
    /\ scoring.result.score = QInt(45)

\* the feedback string has one of the critical words
CriticalWorded(s) == \E cue \in CRITICAL_CUES : Contains(cue, Lower(s))

\* C24: every entry of critical_issues, warnings and improvements is a
\* feedback string of one of the dimension scorers for this request, and
\* critical_issues is empty when no scorer emitted a critical-worded feedback
C24_ListsHoldOnlyScorerFeedback ==
    HasReport =>
        /\ \A l \in ClassifiedLists : Range(Report[l]) \subseteq DimensionFeedback(Report)
        /\ (\A s \in DimensionFeedback(Report) : ~CriticalWorded(s))
               => Report.critical_issues = <<>>

\* the call s of a scorer is one of the keywords scorer with a job description
KeywordsWithJD(s) == s.dimension = "keywords" /\ s.job_description # ""

\* the match ratio of the call s: matched job keywords over
\* max(job keywords, 1)
MatchRatio(s) ==
    [num |-> MatchedCount(StatedKeywords(s.job_description), StatedKeywords(s.text)),
     den |-> Max(Len(StatedKeywords(s.job_description)), 1)]

RatioBelow30(r) == 10 * r.num < 3 * r.den

RatioLeq(a, b) == a.num * b.den <= b.num * a.den

\* a call with a job description and a ratio below 0.3 scores 0; of two
\* calls, the one with the lower ratio does not score higher
LowRatioZeroAndMonotone(earlier, later) ==
    KeywordsWithJD(later) =>
        /\ RatioBelow30(MatchRatio(later)) => later.result.score = QInt(0)
        /\ KeywordsWithJD(earlier) =>
               /\ RatioLeq(MatchRatio(earlier), MatchRatio(later))
                      => QLeq(earlier.result.score, later.result.score)
               /\ RatioLeq(MatchRatio(later), MatchRatio(earlier))
                      => QLeq(later.result.score, earlier.result.score)

\* C27: with a job description, a match ratio below 0.3 gives the Keywords
\* score 0, also when the job description has no keyword; and the Keywords
\* score does not decrease when the match ratio grows
C27_LowRatioScoresZeroAndMonotone ==
    [][LowRatioZeroAndMonotone(scoring, scoring')]_vars

\* a call with two of seven job keywords matched (100 * 2/7 is under 30),
\* scored 0
C27_SomeMatchedStillZero ==
    /\ KeywordsWithJD(scoring)
    /\ MatchRatio(scoring).num > 0
    /\ RatioBelow30(MatchRatio(scoring))
    /\ scoring.result.score = QInt(0)

\* the Formatting feedback has the entry of the glyph deduction
GlyphDeducted(r) ==
    \E k \in DOMAIN r.breakdown.formatting.feedback :
        StartsWith(r.breakdown.formatting.feedback[k], "Remove special characters")

\* the Formatting entry of the glyph deduction names the bullet character
BulletNamed(r) ==
    \E k \in DOMAIN r.breakdown.formatting.feedback :
        /\ StartsWith(r.breakdown.formatting.feedback[k], "Remove special characters")
        /\ Contains(CH_BULLET, r.breakdown.formatting.feedback[k])

\* the Structure feedback has the entry of the no-bullet deduction
NoBulletDeducted(r) ==
    \E k \in DOMAIN r.breakdown.structure.feedback :
        StartsWith(r.breakdown.structure.feedback[k], "Use bullet points")

Absent == [type |-> "absent"]
Str(s) == [type |-> "string", s |-> s]
Arr(items) == [type |-> "array", items |-> items]

\* String(value || "")
StringOrEmpty(value) ==
    IF value.type = "string" THEN value.s
    ELSE IF value.type = "array" THEN Join(value.items, ",")
    ELSE ""

\* Array.isArray(value) ? value : []
ArrayOrEmpty(value) == IF value.type = "array" THEN value.items ELSE <<>>

CONTACT_LABELS == <<"email", "phone", "location">>

impactKeywords == {"increased", "reduced", "improved", "delivered", "launched", "owned"}

\* score = Math.min(score, 100) and the default feedback of scoreFromPayload
payloadResult(score, feedback) ==
    [score |-> Min(score, 100),
     feedback |-> IF Len(feedback) = 0
                  THEN <<"Strong resume. Consider tailoring keywords to each job description.">>
                  ELSE feedback]

\* the seven if / else of scoreFromPayload, given their conditions
payloadChecks(missingContact, summary_ok, skills_ok, experience_ok, impact_ok, has_education, has_projects) ==
    payloadResult(
        50 + Pen(Len(missingContact) = 0, 5) + Pen(summary_ok, 10)
           + Pen(skills_ok, 10) + Pen(experience_ok, 15) + Pen(impact_ok, 5)
           + Pen(has_education, 5) + Pen(has_projects, 5),
        Opt(Len(missingContact) # 0,
            "Add missing contact details: " \o Join(missingContact, ", ") \o ".")
        \o Opt(~summary_ok, "Expand your summary to 2-3 concise sentences.")
        \o Opt(~skills_ok, "Add at least 6 relevant skills.")
        \o Opt(~experience_ok, "Add more experience bullet points with impact metrics.")
        \o Opt(~impact_ok, "Add impact verbs (e.g., increased, improved, delivered) in experience.")
        \o Opt(~has_education, "Include education details.")
        \o Opt(~has_projects, "List 1-2 projects to showcase applied skills."))

\* scoreFromPayload on a payload whose properties can be read
scoreFromPayload(payload) ==
    payloadChecks(
        SelectSeq(CONTACT_LABELS,
                  LAMBDA label : Trim(StringOrEmpty(payload[label])) = ""),
        Len(Trim(StringOrEmpty(payload.summary))) >= 80,
        Len(ArrayOrEmpty(payload.skills)) >= 6,
        Len(ArrayOrEmpty(payload.experience)) >= 4,
        FoundIn(impactKeywords, Lower(Join(ArrayOrEmpty(payload.experience), " "))) # {},
        Len(ArrayOrEmpty(payload.education)) # 0,
        Len(ArrayOrEmpty(payload.projects)) # 0)

\* the promise of an async handler rejected with the error thrown in it
Rejected(error) == [kind |-> "rejected", error |-> error]

\* a JSON value without properties of its own (a number, a string, true, an
\* empty object): each property read from it is undefined
NO_PROPERTIES ==
    [email |-> Absent, phone |-> Absent, location |-> Absent, summary |-> Absent,
     skills |-> Absent, experience |-> Absent, education |-> Absent,
     projects |-> Absent]

\* exports.handler of score.  req.body is <<>> when event.body is not JSON,
\* else <<value>> with value.json the kind of the parsed value ("null",
\* "object" or "other") and value.payload its properties; reading a
\* property of null throws a TypeError
scoreHandler(req) ==
    IF req.httpMethod = "OPTIONS"
    THEN [kind |-> "http", status |-> 204, headers |-> PREFLIGHT_HEADERS,
          body |-> [empty |-> TRUE]]
    ELSE IF req.httpMethod # "POST"
    THEN jsonResponse(405, [error |-> "Method not allowed."])
    ELSE IF req.body = <<>>
    THEN jsonResponse(400, [error |-> "Invalid JSON payload."])
    ELSE IF req.body[1].json = "null"
    THEN Rejected("TypeError")
    ELSE jsonResponse(200, scoreFromPayload(req.body[1].payload))

\* the values of the fields of the payloads sent
ContactValues == {Absent, Str("  "), Str("a@b.co")}
SummaryValues == {Absent, Str(Times("x", 79)), Str(" " \o Times("x", 80) \o " ")}
SkillsValues == {Str("a, b, c, d, e, f"), Arr([k \in 1..5 |-> "css"]), Arr([k \in 1..6 |-> "css"])}
ExperienceValues ==
    {Absent, Arr(<<"Built", "Ran", "Kept">>),
     Arr(<<"Built", "Ran", "Kept", "Made">>),
     Arr(<<"Built", "Ran", "Kept", "Launched it">>),
     Arr(<<"Improved the build">>)}
ListValues == {Arr(<<>>), Arr(<<"B.S. 2020">>)}

Payloads ==
    [email : ContactValues, phone : {Absent, Str("555")}, location : {Str("Austin")},
     summary : SummaryValues, skills : SkillsValues, experience : ExperienceValues,
     education : ListValues, projects : ListValues]

\* the parsed bodies: not JSON, null, a number, an object
ScoreBodies ==
    {<<>>, <<[json |-> "null", payload |-> NO_PROPERTIES]>>,
     <<[json |-> "other", payload |-> NO_PROPERTIES]>>}
    \cup {<<[json |-> "object", payload |-> p]>> : p \in Payloads}

\* a request to the Netlify function score
Score ==
    \E method \in Methods : \E body \in ScoreBodies :
        LET req == [op |-> "score", httpMethod |-> method, body |-> body]
        IN  /\ request = NoRequest
            /\ request' = req
            /\ response' = scoreHandler(req)
            /\ UNCHANGED <<hashSeed, previous, elsewhere>>

NetlifyNext == Score \/ ScoreFile \/ Forget

NetlifySpec == Init /\ [][NetlifyNext]_vars

\* the request is one to the function score
ScoreRequested == request # NoRequest /\ request.op = "score"

\* C25: the score handler never throws: for every method and every body,
\* a body that is JSON but no object (null) included, it resolves with
\* status 204, 405, 400 or 200, and a 200 body has a score and a feedback
\* list
C25_ScoreHandlerAlwaysResponds ==
    ScoreRequested =>
        /\ response.kind = "http"
        /\ response.status \in {204, 405, 400, 200}
        /\ response.status = 200 =>
               /\ response.body.score \in 0..100
               /\ Len(response.body.feedback) >= 0

\* the function score answered 200 with the result of scoreFromPayload
PayloadScored == ScoreRequested /\ response.kind = "http" /\ response.status = 200

\* the only feedback is the "Strong resume" message
OnlyStrongResume(feedback) ==
    Len(feedback) = 1 /\ StartsWith(feedback[1], "Strong resume")

\* C29: scoreFromPayload returns a score in [50, 100] and a feedback list
\* that is not empty, and the score is 100 exactly when the only feedback is
\* the "Strong resume" message: a payload with an improvement feedback
\* scores below 100
C29_Score100OnlyWhenStrongResume ==
    PayloadScored =>
        /\ response.body.score \in 50..100
        /\ Len(response.body.feedback) > 0
        /\ response.body.score = 100 <=> OnlyStrongResume(response.body.feedback)

\* the request is one to the function score-file
ScoreFileRequested == request # NoRequest /\ request.op = "score-file"

\* the first of the checks, in the order of the claim, that the request
\* fails: the status and the error of its response ("" for none)
StatedRefusal(req) ==
    IF req.httpMethod = "OPTIONS" THEN [status |-> 204, error |-> ""]
    ELSE IF req.httpMethod # "POST" THEN [status |-> 405, error |-> "Method not allowed."]
    ELSE IF req.body = <<>> THEN [status |-> 400, error |-> "Invalid JSON payload."]
    ELSE IF req.body[1].filename = "" \/ req.body[1].contentBase64 = <<>>
    THEN [status |-> 400, error |-> "Missing filename or file content."]
    ELSE IF extractTextFromUpload(req.body[1].filename, req.body[1].contentBase64[1],
                                  req.lib).threw
    THEN [status |-> 400, error |-> "Unable to read file."]
    ELSE [status |-> 200, error |-> ""]

\* the headers that allow a cross-origin POST
HasCORSHeaders(headers) ==
    /\ {"Access-Control-Allow-Origin", "Access-Control-Allow-Headers",
        "Access-Control-Allow-Methods"} \subseteq DOMAIN headers
    /\ headers["Access-Control-Allow-Origin"] = "*"

\* C30: the score-file handler gives one response per request, decided in
\* this order: OPTIONS 204 with CORS headers and an empty body, another
\* method than POST 405, a body that is not JSON 400, no filename or no
\* contentBase64 400, a decode or extraction error 400, else 200 with a score
\* in [50, 100] and a feedback that is not empty; no exception escapes
C30_ScoreFileResponseOrder ==
    ScoreFileRequested =>
        /\ response.kind = "http"
        /\ response.status = StatedRefusal(request).status
        /\ response.status = 204 =>
               HasCORSHeaders(response.headers) /\ response.body = [empty |-> TRUE]
        /\ response.status \in {405, 400} =>
               response.body = [error |-> StatedRefusal(request).error]
        /\ response.status = 200 =>
               /\ response.body.score \in 50..100
               /\ Len(response.body.feedback) > 0

\* a GET whose body is not JSON: refused for its method
C30_MethodRefusedBeforeBody ==
    /\ ScoreFileRequested
    /\ request.httpMethod = "GET"
    /\ request.body = <<>>
    /\ response.status = 405

(***************************************************************************)
(* The component App (unnamed/part_000): handleCheckAts and handleUpload    *)
(***************************************************************************)
\* the most requests of one handler that are awaited at a time
MaxPending == 2

\* what a fetch and the response.json() after it come to: a body with a
\* score and a feedback, a body without feedback, a response that is not
\* ok, or a rejection (with or without a message)
FetchOutcomes ==
    {[kind |-> "ok", score |-> 72, feedback |-> <<<<"Add education details.">>>>],
     [kind |-> "ok", score |-> 100, feedback |-> <<>>],
     [kind |-> "not_ok"],
     [kind |-> "rejected", message |-> "Failed to fetch"],
     [kind |-> "rejected", message |-> ""]}

\* data.feedback || []
FeedbackOrEmpty(feedback) == IF feedback = <<>> THEN <<>> ELSE feedback[1]

\* error.message || 'Something went wrong.'
MessageOf(outcome, not_ok) ==
    IF outcome.kind = "not_ok" THEN not_ok
    ELSE IF outcome.message = "" THEN "Something went wrong."
    ELSE outcome.message

\* handleCheckAts up to its await: the button is clicked (it is enabled
\* whatever atsLoading is) and the request is sent
ClickCheckAts ==
    /\ atsPending < MaxPending
    /\ atsLoading' = TRUE
    /\ atsError' = ""
    /\ atsPending' = atsPending + 1
    /\ UNCHANGED <<atsScore, atsFeedback, uploadFile, uploadLoading, uploadError,
                   uploadPending, outsideUI>>

\* handleCheckAts from its await on: one of its requests settles, then the
\* try, catch and finally blocks run
CheckAtsSettles ==
    /\ atsPending > 0
    /\ \E outcome \in FetchOutcomes :
           IF outcome.kind = "ok"
           THEN /\ atsScore' = <<outcome.score>>
                /\ atsFeedback' = FeedbackOrEmpty(outcome.feedback)
                /\ UNCHANGED atsError
           ELSE /\ atsError' = MessageOf(outcome, "Unable to reach the scoring service.")
                /\ UNCHANGED <<atsScore, atsFeedback>>
    /\ atsLoading' = FALSE
    /\ atsPending' = atsPending - 1
    /\ UNCHANGED <<uploadFile, uploadLoading, uploadError, uploadPending, outsideUI>>

\* the file input changes: a file is chosen or the choice is cleared
ChooseFile ==
    /\ \E file \in {<<>>, <<"resume.pdf">>} : file # uploadFile /\ uploadFile' = file
    /\ UNCHANGED <<atsScore, atsFeedback, atsLoading, atsError, uploadLoading,
                   uploadError, atsPending, uploadPending, outsideUI>>

\* handleUpload up to its await, or to its early return without a file
ClickUpload ==
    /\ IF uploadFile = <<>>
       THEN /\ uploadError' = "Choose a resume file first."
            /\ UNCHANGED <<uploadLoading, uploadPending>>
       ELSE /\ uploadPending < MaxPending
            /\ uploadLoading' = TRUE
            /\ uploadError' = ""
            /\ uploadPending' = uploadPending + 1
    /\ UNCHANGED <<atsScore, atsFeedback, atsLoading, atsError, uploadFile, atsPending,
                   outsideUI>>

\* handleUpload from its await on
UploadSettles ==
    /\ uploadPending > 0
    /\ \E outcome \in FetchOutcomes :
           IF outcome.kind = "ok"
           THEN /\ atsScore' = <<outcome.score>>
                /\ atsFeedback' = FeedbackOrEmpty(outcome.feedback)
                /\ UNCHANGED uploadError
           ELSE /\ uploadError' = MessageOf(outcome, "Unable to score the uploaded resume.")
                /\ UNCHANGED <<atsScore, atsFeedback>>
    /\ uploadLoading' = FALSE
    /\ uploadPending' = uploadPending - 1
    /\ UNCHANGED <<atsLoading, atsError, uploadFile, atsPending, outsideUI>>

UINext == ClickCheckAts \/ CheckAtsSettles \/ ChooseFile \/ ClickUpload \/ UploadSettles

UISpec == Init /\ [][UINext]_vars

\* C26: atsLoading is true whenever a request of handleCheckAts is in
\* flight, and uploadLoading whenever one of handleUpload is, also when the
\* button is clicked again before the earlier response has arrived
C26_LoadingWhileInFlight ==
    /\ atsPending > 0 => atsLoading
    /\ uploadPending > 0 => uploadLoading

====
